---------------------------- MODULE Spec2Model ----------------------------
(***************************************************************************)
(* instafetch API: the relational tables of the schema (accounts, posts,   *)
(* media, settings, digests, digest_posts) and the Hono route handlers     *)
(* that read and write them.  Every handler issues its SQL statements      *)
(* against one SQLite/libSQL database; a statement is atomic, so the       *)
(* interleaving of concurrent requests is the interleaving of their        *)
(* statements.  Foreign keys are enforced (libSQL default), uuids drawn by *)
(* crypto.randomUUID() are fresh.                                          *)
(***************************************************************************)
EXTENDS Integers, Sequences, FiniteSets, TLC

VARIABLES accounts, posts, media, digests, digestPosts, settings, slot, failures,
          attempts, jobs

vars == <<accounts, posts, media, digests, digestPosts, settings, slot, failures,
         attempts, jobs>>

----------------------------------------------------------------------------
(* Value pools.  Ids are uuids; the pools hold the uuids a run may draw.    *)

AccountIds == {"a1", "a2"}
PostIds == {"p1", "p2"}
MediaIds == {"m1", "m2"}
DigestIds == {"d1", "d2"}
Uuids == AccountIds \cup PostIds \cup MediaIds \cup DigestIds

\* SQL NULL of a nullable timestamp_ms column.
NoTime == 0
\* SQL NULL of a nullable text column.
NULL == "NULL"

\* Clock readings of new Date() and timestamps carried by requests.
Times == {1, 2}
\* Provider shortcodes, and how recent the post each one names is (NULL: none seen).
Shortcodes == {"A1", "A2"}

Newness(shortcode) ==
    CASE shortcode = "A1" -> 1
      [] shortcode = "A2" -> 2
      [] OTHER -> 0

StatusEnum == {"active", "paused", "error"}

\* The background jobs at rest: no fetch attempt in flight, no fetch cycle
\* under way, no manual trigger answered, no digest being composed or mailed.
NoCycle == [on |-> FALSE, todo |-> {}, set |-> {}, seen |-> {}, skipped |-> {}]

NoJobs ==
    [runs |-> {}, cycle |-> NoCycle, cycles |-> 0, triggers |-> <<>>,
     drafts |-> {}, mail |-> {}]

----------------------------------------------------------------------------
(* Text values.  A handle or url literal stands for its characters.        *)

HandleText(h) ==
    CASE h = "natgeo" -> <<"n", "a", "t", "g", "e", "o">>
      [] h = "nasa" -> <<"n", "a", "s", "a">>
      [] h = "tate" -> <<"t", "a", "t", "e">>
      [] h = "nat geo" -> <<"n", "a", "t", " ", "g", "e", "o">>
      [] h = "" -> <<>>
      [] OTHER -> <<"?">>

\* The characters of the class [A-Za-z0-9._] that occur in the pool.
HandleClass == {"a", "e", "g", "n", "o", "s", "t", ".", "_"}

MaxHandleLength == 30

\* v.pipe(v.string(), v.nonEmpty(), v.maxLength(30), v.regex(/^[A-Za-z0-9._]+$/))
HandleValid(h) ==
    LET t == HandleText(h)
    IN  /\ Len(t) > 0
        /\ Len(t) <= MaxHandleLength
        /\ \A i \in 1..Len(t) : t[i] \in HandleClass

ValidUrls == {"https://ig/1", "https://ig/2"}

\* v.pipe(v.string(), v.url(), v.nonEmpty())
UrlValid(u) == u \in ValidUrls

\* v.pipe(v.string(), v.uuid())
UuidValid(id) == id \in Uuids

----------------------------------------------------------------------------
(* SQLite errors as the driver reports them: err.cause.code and the tokens  *)
(* of err.cause.message.                                                    *)

NoError == [code |-> "SQLITE_OK", message |-> <<>>]

UniqueFailed(columns) ==
    [code |-> "SQLITE_CONSTRAINT",
     message |-> <<"UNIQUE constraint", " failed", ": ", columns>>]

NotNullFailed(column) ==
    [code |-> "SQLITE_CONSTRAINT",
     message |-> <<"NOT NULL constraint", " failed", ": ", column>>]

ForeignKeyFailed ==
    [code |-> "SQLITE_CONSTRAINT",
     message |-> <<"FOREIGN KEY constraint", " failed">>]

\* message.includes(needle), for a needle that can only match at the start.
Includes(message, needle) ==
    /\ Len(needle) <= Len(message)
    /\ SubSeq(message, 1, Len(needle)) = needle

\* err.cause?.code === 'SQLITE_CONSTRAINT' && err.cause.message.includes(needle)
IsConstraint(err, needle) ==
    err.code = "SQLITE_CONSTRAINT" /\ Includes(err.message, needle)

----------------------------------------------------------------------------
(* The database as one value, for the statement operators.                  *)

Db == [accounts |-> accounts, posts |-> posts, media |-> media,
       digests |-> digests, digestPosts |-> digestPosts, settings |-> settings]

EmptyDb == [accounts |-> {}, posts |-> {}, media |-> {},
            digests |-> {}, digestPosts |-> {}, settings |-> {}]

SetDb(d) ==
    /\ accounts' = d.accounts
    /\ posts' = d.posts
    /\ media' = d.media
    /\ digests' = d.digests
    /\ digestPosts' = d.digestPosts
    /\ settings' = d.settings

Ids(rows) == {r.id : r \in rows}

\* crypto.randomUUID(): a uuid no row of the table carries.
FreshIds(pool, rows) == pool \ Ids(rows)


----------------------------------------------------------------------------
(* Statements on accounts.  A statement returns the error it raised, the    *)
(* rows of .returning() and the database it leaves.                         *)

Raised(db, err) == [err |-> err, rows |-> {}, db |-> db]

\* InsertAccount on a table without idx_accounts_handle.
InsertAccount_NoIndex(db, row) ==
    [err |-> NoError, rows |-> {row}, db |-> [db EXCEPT !.accounts = @ \cup {row}]]

\* db.insert(accounts).values(row): unique index idx_accounts_handle.
InsertAccount(db, row) ==
    IF \E a \in db.accounts : a.handle = row.handle
    THEN Raised(db, UniqueFailed("accounts.handle"))
    ELSE [err |-> NoError, rows |-> {row},
          db |-> [db EXCEPT !.accounts = @ \cup {row}]]

\* .set(data) on one account row: only the keys the object carries.
SetAccount(row, data) ==
    [row EXCEPT
        !.handle = IF "handle" \in data.keys THEN data.handle ELSE @,
        !.url = IF "url" \in data.keys THEN data.url ELSE @,
        !.status = IF "status" \in data.keys THEN data.status ELSE @,
        !.lastShortcode =
            IF "lastShortcode" \in data.keys THEN data.lastShortcode ELSE @]

\* UpdateAccount without its where clause: every account row is set.
UpdateAccount_NoWhere(db, id, data) ==
    LET new == {SetAccount(a, data) : a \in db.accounts}
    IN  IF \E m, n \in new : m.id # n.id /\ m.handle = n.handle
        THEN Raised(db, UniqueFailed("accounts.handle"))
        ELSE [err |-> NoError, rows |-> {n \in new : n.id = id},
              db |-> [db EXCEPT !.accounts = new]]

\* db.update(accounts).set(data).where(eq(accounts.id, id)).returning()
UpdateAccount(db, id, data) ==
    LET hit == {a \in db.accounts : a.id = id}
        rest == db.accounts \ hit
        new == {SetAccount(a, data) : a \in hit}
    IN  IF \E n \in new : \E a \in rest : a.handle = n.handle
        THEN Raised(db, UniqueFailed("accounts.handle"))
        ELSE [err |-> NoError, rows |-> new,
              db |-> [db EXCEPT !.accounts = rest \cup new]]

\* DeletePostRows with media.post_id not cascading.
DeletePostRows_KeepsMedia(db, gone) ==
    IF \E dp \in db.digestPosts : dp.postId \in Ids(gone)
    THEN Raised(db, NotNullFailed("digest_posts.post_id"))
    ELSE [err |-> NoError, rows |-> gone, db |-> [db EXCEPT !.posts = @ \ gone]]

\* Deleting post rows: media.post_id is ON DELETE CASCADE; digest_posts.post_id
\* is ON DELETE SET NULL on a NOT NULL column, so the action fails the
\* statement when a deleted post has a membership row.
DeletePostRows(db, gone) ==
    IF \E dp \in db.digestPosts : dp.postId \in Ids(gone)
    THEN Raised(db, NotNullFailed("digest_posts.post_id"))
    ELSE [err |-> NoError, rows |-> gone,
          db |-> [db EXCEPT !.posts = @ \ gone,
                            !.media = {m \in @ : m.postId \notin Ids(gone)}]]

\* db.delete(accounts).where(eq(accounts.id, id)).returning();
\* posts.account_id is ON DELETE CASCADE.
DeleteAccount(db, id) ==
    LET hit == {a \in db.accounts : a.id = id}
        owned == {p \in db.posts : p.accountId \in Ids(hit)}
        sub == DeletePostRows(db, owned)
    IN  IF sub.err # NoError
        THEN Raised(db, sub.err)
        ELSE [err |-> NoError, rows |-> hit,
              db |-> [sub.db EXCEPT !.accounts = @ \ hit]]

----------------------------------------------------------------------------
(* JSON bodies of the account routes: the keys the object carries and the  *)
(* value of each (a filler where the key is absent).                        *)

AccountBody(keys, handle, url, status, lastShortcode) ==
    [keys |-> keys, handle |-> handle, url |-> url, status |-> status,
     lastShortcode |-> lastShortcode]

Invalid == [success |-> FALSE, output |-> AccountBody({}, "", "", "", NULL)]

\* newAccountSchema: handle and url required, status optional with the
\* default "active"; v.object drops the keys the schema does not name.
newAccountSchema(body) ==
    IF /\ "handle" \in body.keys /\ HandleValid(body.handle)
       /\ "url" \in body.keys /\ UrlValid(body.url)
       /\ "status" \in body.keys => body.status \in StatusEnum
    THEN [success |-> TRUE,
          output |-> AccountBody({"handle", "url", "status"}, body.handle, body.url,
                        IF "status" \in body.keys THEN body.status ELSE "active",
                        NULL)]
    ELSE Invalid

\* updateAccountSchema letting the unknown key lastShortcode through.
updateAccountSchema_KeepsUnknown(body) ==
    [success |-> TRUE,
     output |-> AccountBody(body.keys, body.handle, body.url, body.status,
                            body.lastShortcode)]

\* updateAccountSchema applying the inner default "active" to an absent status.
updateAccountSchema_InnerDefault(body) ==
    [success |-> TRUE,
     output |-> AccountBody((body.keys \cap {"handle", "url"}) \cup {"status"},
                    body.handle, body.url,
                    IF "status" \in body.keys THEN body.status ELSE "active",
                    NULL)]

\* updateAccountSchema: every key optional, an absent key stays absent.
updateAccountSchema(body) ==
    IF /\ "handle" \in body.keys => HandleValid(body.handle)
       /\ "url" \in body.keys => UrlValid(body.url)
       /\ "status" \in body.keys => body.status \in StatusEnum
    THEN [success |-> TRUE,
          output |-> AccountBody(body.keys \cap {"handle", "url", "status"},
                        IF "handle" \in body.keys THEN body.handle ELSE "",
                        IF "url" \in body.keys THEN body.url ELSE "",
                        IF "status" \in body.keys THEN body.status ELSE "",
                        NULL)]
    ELSE Invalid

----------------------------------------------------------------------------
(* Account handlers: the statement and the response it is turned into.      *)

Reply(db, code, id) == [db |-> db, code |-> code, id |-> id]

\* app.post('/') of accounts: values({id: crypto.randomUUID(), ...validatedData}),
\* createdAt is $default(() => new Date()).
AccountsPost(db, data, id, now) ==
    LET row == [id |-> id, handle |-> data.handle, url |-> data.url,
                createdAt |-> now, status |-> data.status,
                lastCheckedAt |-> NoTime, lastShortcode |-> NULL]
        res == InsertAccount(db, row)
    IN  IF res.err = NoError THEN Reply(res.db, 201, id)
        ELSE IF IsConstraint(res.err, <<"UNIQUE constraint", " failed">>)
        THEN Reply(db, 409, NULL)
        ELSE Reply(db, 500, NULL)

\* app.patch('/:id') of accounts, after the empty-body check.
AccountsPatch(db, id, data) ==
    LET res == UpdateAccount(db, id, data)
    IN  IF res.err = NoError
        THEN IF res.rows = {} THEN Reply(db, 404, NULL) ELSE Reply(res.db, 200, id)
        ELSE IF IsConstraint(res.err, <<"UNIQUE constraint", " failed">>)
        THEN Reply(db, 409, NULL)
        ELSE Reply(db, 500, NULL)

\* app.delete('/:id') of accounts.
AccountsDelete(db, id) ==
    LET res == DeleteAccount(db, id)
    IN  IF res.err = NoError
        THEN IF res.rows = {} THEN Reply(db, 404, NULL) ELSE Reply(res.db, 200, id)
        ELSE Reply(db, 500, NULL)

----------------------------------------------------------------------------
(* Statements on posts and digest_posts.                                    *)

PostsKey == "posts.account_id, posts.shortcode"

\* InsertPost on a table without idx_posts_account_shortcode.
InsertPost_NoIndex(db, row) ==
    IF row.accountId \notin Ids(db.accounts)
    THEN Raised(db, ForeignKeyFailed)
    ELSE [err |-> NoError, rows |-> {row}, db |-> [db EXCEPT !.posts = @ \cup {row}]]

\* InsertPost with posts.account_id referencing nothing.
InsertPost_NoForeignKey(db, row) ==
    IF \E p \in db.posts : p.accountId = row.accountId /\ p.shortcode = row.shortcode
    THEN Raised(db, UniqueFailed(PostsKey))
    ELSE [err |-> NoError, rows |-> {row}, db |-> [db EXCEPT !.posts = @ \cup {row}]]

\* db.insert(posts).values(row): unique index idx_posts_account_shortcode, then
\* the foreign key posts.account_id -> accounts.id at the end of the statement.
InsertPost(db, row) ==
    IF \E p \in db.posts : p.accountId = row.accountId /\ p.shortcode = row.shortcode
    THEN Raised(db, UniqueFailed(PostsKey))
    ELSE IF row.accountId \notin Ids(db.accounts)
    THEN Raised(db, ForeignKeyFailed)
    ELSE [err |-> NoError, rows |-> {row}, db |-> [db EXCEPT !.posts = @ \cup {row}]]

\* .set(data) on one post row.
SetPost(row, data) ==
    [row EXCEPT
        !.shortcode = IF "shortcode" \in data.keys THEN data.shortcode ELSE @,
        !.publishedAt = IF "publishedAt" \in data.keys THEN data.publishedAt ELSE @,
        !.caption = IF "caption" \in data.keys THEN data.caption ELSE @,
        !.raw = IF "raw" \in data.keys THEN data.raw ELSE @]

\* db.update(posts).set(data).where(eq(posts.id, id)).returning()
UpdatePost(db, id, data) ==
    LET hit == {p \in db.posts : p.id = id}
        rest == db.posts \ hit
        new == {SetPost(p, data) : p \in hit}
    IN  IF \E n \in new : \E p \in rest :
              p.accountId = n.accountId /\ p.shortcode = n.shortcode
        THEN Raised(db, UniqueFailed(PostsKey))
        ELSE [err |-> NoError, rows |-> new, db |-> [db EXCEPT !.posts = rest \cup new]]

\* db.delete(posts).where(eq(posts.id, id)).returning()
DeletePost(db, id) == DeletePostRows(db, {p \in db.posts : p.id = id})

\* DeleteDigest with digest_posts.digest_id not cascading.
DeleteDigest_NoCascade(db, id) ==
    LET hit == {d \in db.digests : d.id = id}
    IN  [err |-> NoError, rows |-> hit, db |-> [db EXCEPT !.digests = @ \ hit]]

\* db.delete(digests).where(eq(digests.id, id)).returning();
\* digest_posts.digest_id is ON DELETE CASCADE.
DeleteDigest(db, id) ==
    LET hit == {d \in db.digests : d.id = id}
    IN  [err |-> NoError, rows |-> hit,
         db |-> [db EXCEPT !.digests = @ \ hit,
                           !.digestPosts = {dp \in @ : dp.digestId \notin Ids(hit)}]]

Membership(digestId, postId) == [digestId |-> digestId, postId |-> postId]

\* The rows of one multi-row INSERT into digest_posts, in order: the primary
\* key (digest_id, post_id) is checked as each row goes in.
RECURSIVE InsertMemberships(_, _)
InsertMemberships(rows, values) ==
    IF values = <<>> THEN [err |-> NoError, rows |-> rows]
    ELSE IF Head(values) \in rows
    THEN [err |-> UniqueFailed("digest_posts.digest_id, digest_posts.post_id"),
          rows |-> rows]
    ELSE InsertMemberships(rows \cup {Head(values)}, Tail(values))

\* InsertDigestPosts without the rollback: the rows that went in before the
\* error stay.
InsertDigestPosts_Partial(db, values) ==
    LET res == InsertMemberships(db.digestPosts, values)
    IN  IF res.err # NoError
        THEN [err |-> res.err, rows |-> {}, db |-> [db EXCEPT !.digestPosts = res.rows]]
        ELSE [err |-> NoError, rows |-> res.rows \ db.digestPosts,
              db |-> [db EXCEPT !.digestPosts = res.rows]]

\* tx.insert(digestPosts).values(values).returning() inside db.transaction: the
\* foreign keys are checked when the statement ends, an error rolls all back.
InsertDigestPosts(db, values) ==
    LET res == InsertMemberships(db.digestPosts, values)
    IN  IF res.err # NoError THEN Raised(db, res.err)
        ELSE IF \E dp \in res.rows :
                    dp.digestId \notin Ids(db.digests) \/ dp.postId \notin Ids(db.posts)
        THEN Raised(db, ForeignKeyFailed)
        ELSE [err |-> NoError, rows |-> res.rows \ db.digestPosts,
              db |-> [db EXCEPT !.digestPosts = res.rows]]

----------------------------------------------------------------------------
(* JSON bodies and schemas of the post and digest routes.                   *)

\* An ISO 8601 timestamp string and the Date it parses to (0: not a timestamp).
IsoTime(text) ==
    CASE text = "1970-01-01T00:00:00.001Z" -> 1
      [] text = "1970-01-01T00:00:00.002Z" -> 2
      [] OTHER -> 0

Iso1 == "1970-01-01T00:00:00.001Z"
Iso2 == "1970-01-01T00:00:00.002Z"

PostBody(keys, accountId, shortcode, publishedAt, caption, raw) ==
    [keys |-> keys, accountId |-> accountId, shortcode |-> shortcode,
     publishedAt |-> publishedAt, caption |-> caption, raw |-> raw]

\* newPostSchema; v.transform turns publishedAt into a Date.
newPostSchema(body) ==
    IF /\ "accountId" \in body.keys /\ UuidValid(body.accountId)
       /\ "shortcode" \in body.keys /\ body.shortcode # ""
       /\ "publishedAt" \in body.keys /\ IsoTime(body.publishedAt) # 0
    THEN [success |-> TRUE,
          output |-> [body EXCEPT
              !.keys = @ \cap {"accountId", "shortcode", "publishedAt", "caption", "raw"},
              !.publishedAt = IsoTime(@)]]
    ELSE Invalid

\* updatePostSchema: every key optional; accountId is not a key of it.
updatePostSchema(body) ==
    IF /\ "shortcode" \in body.keys => body.shortcode # ""
       /\ "publishedAt" \in body.keys => IsoTime(body.publishedAt) # 0
    THEN [success |-> TRUE,
          output |-> [body EXCEPT
              !.keys = @ \cap {"shortcode", "publishedAt", "caption", "raw"},
              !.publishedAt = IsoTime(@)]]
    ELSE Invalid

\* digestPostsSchema: a non-empty array of uuids.
digestPostsSchema(body) ==
    IF /\ "postIds" \in body.keys
       /\ body.postIds # <<>>
       /\ \A i \in 1..Len(body.postIds) : UuidValid(body.postIds[i])
    THEN [success |-> TRUE, output |-> body]
    ELSE Invalid

----------------------------------------------------------------------------
(* Post and digest handlers.                                                *)

\* PostsPost as an upsert: a stored (accountId, shortcode) takes the new
\* caption and publishedAt.
PostsPost_Upsert(db, data, id) ==
    LET old == {p \in db.posts : p.accountId = data.accountId /\ p.shortcode = data.shortcode}
        new == {[p EXCEPT !.caption = IF "caption" \in data.keys THEN data.caption ELSE NULL,
                          !.publishedAt = data.publishedAt] : p \in old}
    IN  IF old # {}
        THEN Reply([db EXCEPT !.posts = (@ \ old) \cup new], 200, NULL)
        ELSE IF data.accountId \notin Ids(db.accounts) THEN Reply(db, 500, NULL)
        ELSE Reply([db EXCEPT !.posts = @ \cup
                        {[id |-> id, accountId |-> data.accountId,
                          shortcode |-> data.shortcode,
                          caption |-> IF "caption" \in data.keys THEN data.caption ELSE NULL,
                          publishedAt |-> data.publishedAt, raw |-> NULL]}], 201, id)

\* app.post('/') of posts: values({id: crypto.randomUUID(), ...validatedData}).
PostsPost(db, data, id) ==
    LET row == [id |-> id, accountId |-> data.accountId, shortcode |-> data.shortcode,
                caption |-> IF "caption" \in data.keys THEN data.caption ELSE NULL,
                publishedAt |-> data.publishedAt,
                raw |-> IF "raw" \in data.keys THEN data.raw ELSE NULL]
        res == InsertPost(db, row)
    IN  IF res.err = NoError THEN Reply(res.db, 201, id)
        ELSE IF IsConstraint(res.err,
                    <<"UNIQUE constraint", " failed", ": ", "posts.account_id, posts.shortcode">>)
        THEN Reply(db, 409, NULL)
        ELSE Reply(db, 500, NULL)

\* app.patch('/:id') of posts, after the empty-body check.
PostsPatch(db, id, data) ==
    LET res == UpdatePost(db, id, data)
    IN  IF res.err = NoError
        THEN IF res.rows = {} THEN Reply(db, 404, NULL) ELSE Reply(res.db, 200, id)
        ELSE IF IsConstraint(res.err,
                    <<"UNIQUE constraint", " failed", ": ", "posts.accountId, posts.shortcode">>)
        THEN Reply(db, 409, NULL)
        ELSE Reply(db, 500, NULL)

\* app.delete('/:id') of posts.
PostsDelete(db, id) ==
    LET res == DeletePost(db, id)
    IN  IF res.err = NoError
        THEN IF res.rows = {} THEN Reply(db, 404, NULL) ELSE Reply(res.db, 200, id)
        ELSE Reply(db, 500, NULL)

\* app.delete('/:id') of digests.
DigestsDelete(db, id) ==
    LET res == DeleteDigest(db, id)
    IN  IF res.err = NoError
        THEN IF res.rows = {} THEN Reply(db, 404, NULL) ELSE Reply(res.db, 200, id)
        ELSE Reply(db, 500, NULL)

\* app.post('/:id/posts') of digests.
DigestsPostPosts(db, digestId, postIds) ==
    LET values == [i \in 1..Len(postIds) |-> Membership(digestId, postIds[i])]
        res == InsertDigestPosts(db, values)
    IN  IF res.err = NoError THEN Reply(res.db, 201, digestId)
        ELSE IF IsConstraint(res.err, <<"UNIQUE constraint">>)
        THEN Reply(res.db, 409, NULL)
        ELSE Reply(res.db, 500, NULL)

----------------------------------------------------------------------------
(* PATCH /digests/:id.                                                      *)

DigestBody(keys, sentAt, periodStart, periodEnd) ==
    [keys |-> keys, sentAt |-> sentAt, periodStart |-> periodStart,
     periodEnd |-> periodEnd]

\* updateDigestSchema: every key optional, each an ISO timestamp turned into
\* a Date.
updateDigestSchema(body) ==
    IF /\ "sentAt" \in body.keys => IsoTime(body.sentAt) # 0
       /\ "periodStart" \in body.keys => IsoTime(body.periodStart) # 0
       /\ "periodEnd" \in body.keys => IsoTime(body.periodEnd) # 0
    THEN [success |-> TRUE,
          output |-> [body EXCEPT
              !.keys = @ \cap {"sentAt", "periodStart", "periodEnd"},
              !.sentAt = IsoTime(@),
              !.periodStart = IsoTime(@),
              !.periodEnd = IsoTime(@)]]
    ELSE Invalid

\* .set(data) on one digest row.
SetDigest(row, data) ==
    [row EXCEPT
        !.sentAt = IF "sentAt" \in data.keys THEN data.sentAt ELSE @,
        !.periodStart = IF "periodStart" \in data.keys THEN data.periodStart ELSE @,
        !.periodEnd = IF "periodEnd" \in data.keys THEN data.periodEnd ELSE @]

\* db.update(digests).set(data).where(eq(digests.id, id)).returning()
UpdateDigest(db, id, data) ==
    LET hit == {d \in db.digests : d.id = id}
        new == {SetDigest(d, data) : d \in hit}
    IN  [err |-> NoError, rows |-> new,
         db |-> [db EXCEPT !.digests = (@ \ hit) \cup new]]

\* app.patch('/:id') of digests, after the empty-body check.
DigestsPatch(db, id, data) ==
    LET res == UpdateDigest(db, id, data)
    IN  IF res.err = NoError
        THEN IF res.rows = {} THEN Reply(db, 404, NULL) ELSE Reply(res.db, 200, id)
        ELSE Reply(db, 500, NULL)

----------------------------------------------------------------------------
(* Routing.  app.route(prefix, sub) serves a handler that sub registers at  *)
(* path under prefix + path; a request no registered route matches is       *)
(* answered 404 by Hono.                                                    *)

Mounted(method, prefix, path) ==
    method \o " " \o prefix \o (IF path = "/" THEN "" ELSE path)

AccountsApp ==
    {Mounted(r[1], "/accounts", r[2]) :
        r \in {<<"GET", "/">>, <<"GET", "/:id">>, <<"POST", "/">>,
               <<"PATCH", "/:id">>, <<"DELETE", "/:id">>}}

DigestsApp ==
    {Mounted(r[1], "/digests", r[2]) :
        r \in {<<"GET", "/">>, <<"GET", "/:id">>, <<"POST", "/">>,
               <<"POST", "/:id/posts">>, <<"PATCH", "/:id">>, <<"DELETE", "/:id">>,
               <<"DELETE", "/digests/:id/posts">>}}

MediaApp == {Mounted(r[1], "/media", r[2]) : r \in {<<"GET", "/">>, <<"GET", "/:id">>}}

PostsApp ==
    {Mounted(r[1], "/posts", r[2]) :
        r \in {<<"GET", "/">>, <<"GET", "/:id">>, <<"GET", "/:id/media">>,
               <<"POST", "/">>, <<"PATCH", "/:id">>, <<"DELETE", "/:id">>}}

SettingsApp == {Mounted(r[1], "/settings", r[2]) : r \in {<<"GET", "/">>, <<"PATCH", "/">>}}

Handled == AccountsApp \cup DigestsApp \cup MediaApp \cup PostsApp \cup SettingsApp

\* The route under which the handler removing memberships is served.
DigestsDeletePostsRoute == Mounted("DELETE", "/digests", "/digests/:id/posts")

----------------------------------------------------------------------------
(* Removing memberships and reading media.                                  *)

Elems(seq) == {seq[i] : i \in 1..Len(seq)}

\* db.delete(digestPosts).where(and(eq(digestId, id), inArray(postId, postIds)))
\*   .returning()
DeleteDigestPosts(db, digestId, postIds) ==
    LET hit == {dp \in db.digestPosts :
                    dp.digestId = digestId /\ dp.postId \in Elems(postIds)}
    IN  [err |-> NoError, rows |-> hit, db |-> [db EXCEPT !.digestPosts = @ \ hit]]

\* app.delete('/digests/:id/posts') of digests.
DigestsDeletePosts(db, digestId, postIds) ==
    LET res == DeleteDigestPosts(db, digestId, postIds)
    IN  IF res.rows = {} THEN Reply(db, 404, NULL) ELSE Reply(res.db, 200, digestId)

\* app.get('/') of media: a select, every row answered.
MediaGet(db) == Reply(db, 200, NULL)

\* app.get('/:id') of media.
MediaGetOne(db, id) ==
    IF {m \in db.media : m.id = id} = {} THEN Reply(db, 404, NULL)
    ELSE Reply(db, 200, id)

----------------------------------------------------------------------------
(* Settings: the singleton row, its statements, schema and handlers.        *)

\* .values({ id: 1 }): digestFrequency and instantAlerts take their defaults.
DefaultSettings == [id |-> 1, digestFrequency |-> "daily", instantAlerts |-> FALSE]

FrequencyEnum == {"daily", "weekly"}

\* db.select().from(settings).where(eq(settings.id, 1))
SelectSettings(db) == {s \in db.settings : s.id = 1}

\* InsertSettings on a table whose id is no primary key.
InsertSettings_NoKey(db, row) ==
    [err |-> NoError, rows |-> {row}, db |-> [db EXCEPT !.settings = @ \cup {row}]]

\* db.insert(settings).values(row).returning(): id is the primary key.
InsertSettings(db, row) ==
    IF \E s \in db.settings : s.id = row.id
    THEN Raised(db, UniqueFailed("settings.id"))
    ELSE [err |-> NoError, rows |-> {row},
          db |-> [db EXCEPT !.settings = @ \cup {row}]]

SetSettings(row, data) ==
    [row EXCEPT
        !.digestFrequency =
            IF "digestFrequency" \in data.keys THEN data.digestFrequency ELSE @,
        !.instantAlerts =
            IF "instantAlerts" \in data.keys THEN data.instantAlerts ELSE @]

\* db.update(settings).set(data).where(eq(settings.id, 1)).returning()
UpdateSettings(db, data) ==
    LET hit == SelectSettings(db)
        new == {SetSettings(s, data) : s \in hit}
    IN  [err |-> NoError, rows |-> new,
         db |-> [db EXCEPT !.settings = (@ \ hit) \cup new]]

SettingsBody(keys, digestFrequency, instantAlerts) ==
    [keys |-> keys, digestFrequency |-> digestFrequency,
     instantAlerts |-> instantAlerts]

\* updateSettingsSchema: both keys optional, an absent key stays absent.
updateSettingsSchema(body) ==
    IF /\ "digestFrequency" \in body.keys => body.digestFrequency \in FrequencyEnum
       /\ "instantAlerts" \in body.keys => body.instantAlerts \in BOOLEAN
    THEN [success |-> TRUE,
          output |-> SettingsBody(body.keys \cap {"digestFrequency", "instantAlerts"},
                        IF "digestFrequency" \in body.keys
                        THEN body.digestFrequency ELSE "",
                        IF "instantAlerts" \in body.keys
                        THEN body.instantAlerts ELSE FALSE)]
    ELSE Invalid

\* app.get('/') of settings once the select found no row: the insert and
\* the response.
SettingsGetCreate(db) ==
    LET res == InsertSettings(db, DefaultSettings)
    IN  IF res.err = NoError THEN Reply(res.db, 200, NULL) ELSE Reply(db, 500, NULL)

\* SettingsPatch creating the row it does not find.
SettingsPatch_Upserts(db, data) ==
    IF SelectSettings(db) = {}
    THEN Reply([db EXCEPT !.settings = {SetSettings(DefaultSettings, data)}], 200, NULL)
    ELSE Reply(UpdateSettings(db, data).db, 200, NULL)

\* app.patch('/') of settings, after the empty-body check.
SettingsPatch(db, data) ==
    LET res == UpdateSettings(db, data)
    IN  IF res.rows = {} THEN Reply(db, 404, NULL) ELSE Reply(res.db, 200, NULL)

----------------------------------------------------------------------------
(* The reads of the posts app.  GET /posts/:id/media and GET /posts each    *)
(* send two statements at once (Promise.all) and answer when both have      *)
(* returned; statements of other requests may run between the two.          *)

\* db.query.posts.findFirst({where: eq(posts.id, id), columns: {id: true}})
FindPost(db, id) == id \in Ids(db.posts)

\* db.select().from(media).where(eq(media.postId, id))
SelectMedia(db, id) == {m \in db.media : m.postId = id}

\* What a read request has got so far (read: the statements that returned)
\* and, once it is answered, its response body: the media rows (set), or
\* the page of posts (list) with meta.total and meta.totalPages.
NoOut ==
    [read |-> {}, found |-> FALSE, set |-> {}, list |-> <<>>, total |-> 0,
     totalPages |-> 0, failed |-> FALSE]

\* app.get('/:id/media') of posts once both statements returned.
PostsGetMedia(got) ==
    IF ~got.found THEN [code |-> 404, out |-> NoOut] ELSE [code |-> 200, out |-> got]

\* The same with both statements run on one state of the database.
PostsGetMediaAtOnce(db, id) ==
    PostsGetMedia([NoOut EXCEPT !.read = {"find", "select"},
                                !.found = FindPost(db, id),
                                !.set = SelectMedia(db, id)])

\* A JavaScript number as a fraction n/d, or NaN.
Num(n, d) == [nan |-> FALSE, n |-> n, d |-> d]

NaN == [nan |-> TRUE, n |-> 0, d |-> 1]

\* Number(text) on the query strings of the pool.
Number(text) ==
    CASE text = "" -> Num(0, 1)
      [] text = "0" -> Num(0, 1)
      [] text = "1" -> Num(1, 1)
      [] text = "2" -> Num(2, 1)
      [] text = "3" -> Num(3, 1)
      [] text = "20" -> Num(20, 1)
      [] text = "101" -> Num(101, 1)
      [] text = "1.5" -> Num(3, 2)
      [] text = "2.5" -> Num(5, 2)
      [] OTHER -> NaN

MaxLimit == 100

AtLeast(x, k) == x.n >= k * x.d

AtMost(x, k) == x.n <= k * x.d

Query(keys, page, limit) == [keys |-> keys, page |-> page, limit |-> limit]

\* paginationSchema: page and limit are optional strings with the defaults
\* "1" and "20", turned into numbers; v.number() refuses NaN.
paginationSchema(query) ==
    LET page == Number(IF "page" \in query.keys THEN query.page ELSE "1")
        limit == Number(IF "limit" \in query.keys THEN query.limit ELSE "20")
    IN  IF /\ ~page.nan /\ AtLeast(page, 1)
           /\ ~limit.nan /\ AtLeast(limit, 1) /\ AtMost(limit, MaxLimit)
        THEN [success |-> TRUE,
              output |-> [keys |-> {"page", "limit"}, page |-> page, limit |-> limit]]
        ELSE Invalid

\* const offset = (page - 1) * limit
Offset(page, limit) == Num((page.n - page.d) * limit.n, page.d * limit.d)

Integral(x) == x.n % x.d = 0

Whole(x) == x.n \div x.d

\* ORDER BY published_at DESC: rows with one publishedAt come in an order
\* that is the same whenever the table is.
RECURSIVE Sorted(_)
Sorted(rows) ==
    IF rows = {} THEN <<>>
    ELSE LET first == CHOOSE r \in rows : \A q \in rows : r.publishedAt >= q.publishedAt
         IN  <<first>> \o Sorted(rows \ {first})

Least(a, b) == IF a < b THEN a ELSE b

\* db.query.posts.findMany({limit, offset, orderBy: desc(posts.publishedAt)}):
\* LIMIT and OFFSET take a value that converts to an integer without loss.
FindManyPosts(db, limit, offset) ==
    IF ~Integral(limit) \/ ~Integral(offset)
    THEN [err |-> [code |-> "SQLITE_MISMATCH", message |-> <<"datatype mismatch">>],
          rows |-> <<>>]
    ELSE [err |-> NoError,
          rows |-> SubSeq(Sorted(db.posts), Whole(offset) + 1,
                          Least(Whole(offset) + Whole(limit), Cardinality(db.posts)))]

\* db.select({count: count()}).from(posts)
CountPosts(db) == Cardinality(db.posts)

\* Math.ceil(total / limit), limit a whole number.
Ceil(total, limit) == (total + Whole(limit) - 1) \div Whole(limit)

\* app.get('/') of posts once both statements returned, or one failed.
PostsGet(got, limit) ==
    IF got.failed THEN [code |-> 500, out |-> NoOut]
    ELSE [code |-> 200, out |-> [got EXCEPT !.totalPages = Ceil(got.total, limit)]]

\* The same with both statements run on one state of the database.
PostsGetAtOnce(db, query) ==
    LET res == FindManyPosts(db, query.limit, Offset(query.page, query.limit))
    IN  PostsGet([NoOut EXCEPT !.read = {"many", "count"},
                               !.list = res.rows,
                               !.failed = res.err # NoError,
                               !.total = CountPosts(db)],
                 query.limit)

----------------------------------------------------------------------------
(* Requests in flight.  slot[c] is the exchange of client c: idle, pending  *)
(* (validated, its statement not yet run) or done (answered).  "with" is     *)
(* the set of clients whose requests were pending at some moment while this *)
(* one was: the requests it ran concurrently with.  "seen" holds, for a     *)
(* read of the posts app, what it would have answered had it run both its   *)
(* statements in the state its first statement ran in, or its last.         *)

Request(route, id, body) == [route |-> route, id |-> id, body |-> body]

\* A request without a JSON body.
NoBody == [keys |-> {}]

Idle == [phase |-> "idle", r |-> Request("", NULL, NoBody), code |-> 0, id |-> NULL,
         with |-> {}, out |-> NoOut, seen |-> {}]

PatchRoutes ==
    {"PATCH /accounts/:id", "PATCH /posts/:id", "PATCH /digests/:id", "PATCH /settings"}

ParamRoutes ==
    {"PATCH /accounts/:id", "DELETE /accounts/:id", "PATCH /posts/:id",
     "DELETE /posts/:id", "DELETE /digests/:id", "POST /digests/:id/posts",
     "PATCH /digests/:id", "GET /media/:id", "GET /posts/:id/media",
     DigestsDeletePostsRoute}

\* The vValidator middlewares of a route: 'param' first, then 'json'.
Validate(r) ==
    IF r.route \in ParamRoutes /\ ~UuidValid(r.id) THEN Invalid
    ELSE CASE r.route = "POST /accounts" -> newAccountSchema(r.body)
           [] r.route = "PATCH /accounts/:id" -> updateAccountSchema(r.body)
           [] r.route = "POST /posts" -> newPostSchema(r.body)
           [] r.route = "PATCH /posts/:id" -> updatePostSchema(r.body)
           [] r.route = "POST /digests/:id/posts" -> digestPostsSchema(r.body)
           [] r.route = "PATCH /settings" -> updateSettingsSchema(r.body)
           [] r.route = "PATCH /digests/:id" -> updateDigestSchema(r.body)
           [] r.route = "GET /posts" -> paginationSchema(r.body)
           [] r.route = DigestsDeletePostsRoute -> digestPostsSchema(r.body)
           [] OTHER -> [success |-> TRUE, output |-> r.body]

\* Rejected without the Object.keys(validatedData).length === 0 check.
Rejected_NoEmptyCheck(r) == ~Validate(r).success

\* Answered 400 before any statement: validationErrorHandler, or the
\* Object.keys(validatedData).length === 0 check of a PATCH handler.
Rejected(r) ==
    \/ ~Validate(r).success
    \/ r.route \in PatchRoutes /\ Validate(r).output.keys = {}

\* In flight: before its first statement ("pending"), for GET /settings
\* between its select and its insert ("creating"), for a read of the posts
\* app between its two statements ("reading").
Pending(c) == slot[c].phase \in {"pending", "creating", "reading"}

\* A request arrives at client slot c and runs up to its first await.
Receive(c, r) ==
    /\ ~Pending(c)
    /\ LET others == {d \in DOMAIN slot \ {c} : Pending(d)}
       IN  slot' = [d \in DOMAIN slot |->
                IF d = c
                THEN IF Rejected(r)
                     THEN [phase |-> "done", r |-> r, code |-> 400, id |-> NULL,
                           with |-> {}, out |-> NoOut, seen |-> {}]
                     ELSE [phase |-> "pending", r |-> r, code |-> 0, id |-> NULL,
                           with |-> others, out |-> NoOut, seen |-> {}]
                ELSE IF d \in others /\ ~Rejected(r)
                     THEN [slot[d] EXCEPT !.with = @ \cup {c}]
                     ELSE slot[d]]
    /\ UNCHANGED <<accounts, posts, media, digests, digestPosts, settings, failures,
                   attempts, jobs>>

\* The statement of a pending request has run: database and response.
Answer(c, out) ==
    /\ SetDb(out.db)
    /\ slot' = [slot EXCEPT ![c] = [@ EXCEPT !.phase = "done", !.code = out.code,
                                             !.id = out.id]]
    /\ UNCHANGED <<failures, attempts, jobs>>

Running(c, route) == Pending(c) /\ slot[c].r.route = route

\* The uuid a pending insert draws; with the pool used up only an insert that
\* fails whatever its id can run.
Overflow == "uuid"

Draw(pool, rows) == IF FreshIds(pool, rows) = {} THEN {Overflow} ELSE FreshIds(pool, rows)

ExecAccountsPost(c) ==
    /\ Running(c, "POST /accounts")
    /\ \E id \in Draw(AccountIds, accounts), now \in Times :
          LET out == AccountsPost(Db, Validate(slot[c].r).output, id, now)
          IN  /\ out.code = 201 => id # Overflow
              /\ Answer(c, out)

ExecAccountsPatch(c) ==
    /\ Running(c, "PATCH /accounts/:id")
    /\ Answer(c, AccountsPatch(Db, slot[c].r.id, Validate(slot[c].r).output))

ExecAccountsDelete(c) ==
    /\ Running(c, "DELETE /accounts/:id")
    /\ Answer(c, AccountsDelete(Db, slot[c].r.id))

ExecPostsPost(c) ==
    /\ Running(c, "POST /posts")
    /\ \E id \in Draw(PostIds, posts) :
          LET out == PostsPost(Db, Validate(slot[c].r).output, id)
          IN  /\ out.code = 201 => id # Overflow
              /\ Answer(c, out)

ExecPostsPatch(c) ==
    /\ Running(c, "PATCH /posts/:id")
    /\ Answer(c, PostsPatch(Db, slot[c].r.id, Validate(slot[c].r).output))

ExecPostsDelete(c) ==
    /\ Running(c, "DELETE /posts/:id")
    /\ Answer(c, PostsDelete(Db, slot[c].r.id))

ExecDigestsDelete(c) ==
    /\ Running(c, "DELETE /digests/:id")
    /\ Answer(c, DigestsDelete(Db, slot[c].r.id))

ExecDigestsPatch(c) ==
    /\ Running(c, "PATCH /digests/:id")
    /\ Answer(c, DigestsPatch(Db, slot[c].r.id, Validate(slot[c].r).output))

ExecDigestsPostPosts(c) ==
    /\ Running(c, "POST /digests/:id/posts")
    /\ Answer(c, DigestsPostPosts(Db, slot[c].r.id, Validate(slot[c].r).output.postIds))

\* app.get('/') of settings, first statement: the row is answered when the
\* select finds it, otherwise the handler goes on to its insert.
ExecSettingsSelect(c) ==
    /\ Running(c, "GET /settings") /\ slot[c].phase = "pending"
    /\ IF SelectSettings(Db) # {}
       THEN Answer(c, Reply(Db, 200, NULL))
       ELSE /\ slot' = [slot EXCEPT ![c].phase = "creating"]
            /\ UNCHANGED <<accounts, posts, media, digests, digestPosts, settings,
                           failures, attempts, jobs>>

\* app.get('/') of settings, second statement.
ExecSettingsInsert(c) ==
    /\ Running(c, "GET /settings") /\ slot[c].phase = "creating"
    /\ Answer(c, SettingsGetCreate(Db))

ExecSettingsPatch(c) ==
    /\ Running(c, "PATCH /settings")
    /\ Answer(c, SettingsPatch(Db, Validate(slot[c].r).output))

ExecDigestsDeletePosts(c) ==
    /\ Running(c, DigestsDeletePostsRoute)
    /\ Answer(c, DigestsDeletePosts(Db, slot[c].r.id, Validate(slot[c].r).output.postIds))

ExecMediaGet(c) ==
    /\ Running(c, "GET /media")
    /\ Answer(c, MediaGet(Db))

ExecMediaGetOne(c) ==
    /\ Running(c, "GET /media/:id")
    /\ Answer(c, MediaGetOne(Db, slot[c].r.id))

\* No registered route matches the request.
ExecNotFound(c) ==
    /\ Pending(c) /\ slot[c].r.route \notin Handled
    /\ Answer(c, Reply(Db, 404, NULL))

\* A statement of a read returned: the request is answered when it was the
\* last of `all`, or when it failed.
Returned(c, got, all, answer, atOnce) ==
    /\ slot' = [slot EXCEPT ![c] =
            IF got.read = all \/ got.failed
            THEN [@ EXCEPT !.phase = "done", !.code = answer.code, !.out = answer.out,
                           !.seen = @ \cup {atOnce}]
            ELSE [@ EXCEPT !.phase = "reading", !.out = got, !.seen = @ \cup {atOnce}]]
    /\ UNCHANGED <<accounts, posts, media, digests, digestPosts, settings, failures,
                   attempts, jobs>>

\* app.get('/:id/media') of posts: the findFirst returns.
ExecPostsMediaFind(c) ==
    /\ Running(c, "GET /posts/:id/media") /\ "find" \notin slot[c].out.read
    /\ LET got == [slot[c].out EXCEPT !.read = @ \cup {"find"},
                                      !.found = FindPost(Db, slot[c].r.id)]
       IN  Returned(c, got, {"find", "select"}, PostsGetMedia(got),
                    PostsGetMediaAtOnce(Db, slot[c].r.id))

\* app.get('/:id/media') of posts: the select on media returns.
ExecPostsMediaSelect(c) ==
    /\ Running(c, "GET /posts/:id/media") /\ "select" \notin slot[c].out.read
    /\ LET got == [slot[c].out EXCEPT !.read = @ \cup {"select"},
                                      !.set = SelectMedia(Db, slot[c].r.id)]
       IN  Returned(c, got, {"find", "select"}, PostsGetMedia(got),
                    PostsGetMediaAtOnce(Db, slot[c].r.id))

\* app.get('/') of posts: the findMany returns, or fails.
ExecPostsGetMany(c) ==
    /\ Running(c, "GET /posts") /\ "many" \notin slot[c].out.read
    /\ LET q == Validate(slot[c].r).output
           res == FindManyPosts(Db, q.limit, Offset(q.page, q.limit))
           got == [slot[c].out EXCEPT !.read = @ \cup {"many"},
                                      !.list = res.rows,
                                      !.failed = res.err # NoError]
       IN  Returned(c, got, {"many", "count"}, PostsGet(got, q.limit),
                    PostsGetAtOnce(Db, q))

\* app.get('/') of posts: the count returns.
ExecPostsGetCount(c) ==
    /\ Running(c, "GET /posts") /\ "count" \notin slot[c].out.read
    /\ LET q == Validate(slot[c].r).output
           got == [slot[c].out EXCEPT !.read = @ \cup {"count"},
                                      !.total = CountPosts(Db)]
       IN  Returned(c, got, {"many", "count"}, PostsGet(got, q.limit),
                    PostsGetAtOnce(Db, q))

RunPostsMediaFind == \E c \in DOMAIN slot : ExecPostsMediaFind(c)

RunPostsMediaSelect == \E c \in DOMAIN slot : ExecPostsMediaSelect(c)

RunPostsGetMany == \E c \in DOMAIN slot : ExecPostsGetMany(c)

RunPostsGetCount == \E c \in DOMAIN slot : ExecPostsGetCount(c)

RunPostsPost == \E c \in DOMAIN slot : ExecPostsPost(c)

RunPostsPatch == \E c \in DOMAIN slot : ExecPostsPatch(c)

RunPostsDelete == \E c \in DOMAIN slot : ExecPostsDelete(c)

RunDigestsDelete == \E c \in DOMAIN slot : ExecDigestsDelete(c)

RunDigestsPatch == \E c \in DOMAIN slot : ExecDigestsPatch(c)

RunDigestsPostPosts == \E c \in DOMAIN slot : ExecDigestsPostPosts(c)

RunDigestsDeletePosts == \E c \in DOMAIN slot : ExecDigestsDeletePosts(c)

RunMediaGet == \E c \in DOMAIN slot : ExecMediaGet(c)

RunMediaGetOne == \E c \in DOMAIN slot : ExecMediaGetOne(c)

RunNotFound == \E c \in DOMAIN slot : ExecNotFound(c)

RunSettingsSelect == \E c \in DOMAIN slot : ExecSettingsSelect(c)

RunSettingsInsert == \E c \in DOMAIN slot : ExecSettingsInsert(c)

RunSettingsPatch == \E c \in DOMAIN slot : ExecSettingsPatch(c)

----------------------------------------------------------------------------
(* SpecAccounts: one client working the account routes on a database that  *)
(* is empty or already holds an account the fetch job has checked.          *)

Url1 == "https://ig/1"
Url2 == "https://ig/2"

CheckedAccount ==
    [id |-> "a1", handle |-> "natgeo", url |-> Url1, createdAt |-> 1,
     status |-> "active", lastCheckedAt |-> 1, lastShortcode |-> "A2"]

AccountsPostBodies ==
    {AccountBody({"handle", "url"}, h, Url1, "", NULL) :
        h \in {"natgeo", "nasa", "nat geo"}}
    \cup {AccountBody({"handle", "url", "status"}, h, Url1, s, NULL) :
        h \in {"natgeo", "nasa"}, s \in {"paused", "error"}}
    \cup {AccountBody({"handle", "url", "status"}, "nasa", Url1, "deleted", NULL)}

AccountsPatchBodies ==
    {AccountBody({"handle"}, h, "", "", NULL) : h \in {"natgeo", "nasa"}}
    \cup {AccountBody({"status"}, "", "", s, NULL) : s \in StatusEnum}
    \cup {AccountBody({"url"}, "", Url2, "", NULL),
          AccountBody({"lastShortcode"}, "", "", "", "A1"),
          AccountBody({"status", "lastShortcode"}, "", "", "active", "A1"),
          AccountBody({}, "", "", "", NULL)}

AccountRequests ==
    {Request("POST /accounts", NULL, b) : b \in AccountsPostBodies}
    \cup {Request("PATCH /accounts/:id", id, b) :
            id \in AccountIds, b \in AccountsPatchBodies}
    \cup {Request("PATCH /accounts/:id", "7", AccountBody({"status"}, "", "", "paused", NULL))}
    \cup {Request("DELETE /accounts/:id", id, NoBody) : id \in AccountIds}

InitAccounts ==
    /\ accounts \in {{}, {CheckedAccount}}
    /\ posts = {} /\ media = {} /\ digests = {} /\ digestPosts = {}
    /\ settings = {}
    /\ slot = [c \in {"c1"} |-> Idle]
    /\ failures = [a \in AccountIds |-> 0]
    /\ attempts = [a \in AccountIds |-> <<>>]
    /\ jobs = NoJobs

ReceiveAccounts == \E c \in DOMAIN slot : \E r \in AccountRequests : Receive(c, r)

RunAccountsPost == \E c \in DOMAIN slot : ExecAccountsPost(c)

RunAccountsPatch == \E c \in DOMAIN slot : ExecAccountsPatch(c)

RunAccountsDelete == \E c \in DOMAIN slot : ExecAccountsDelete(c)

NextAccounts ==
    \/ ReceiveAccounts
    \/ RunAccountsPost
    \/ RunAccountsPatch
    \/ RunAccountsDelete

SpecAccounts == InitAccounts /\ [][NextAccounts]_vars

----------------------------------------------------------------------------
(* SpecAccountsConc: two clients whose account requests overlap, on an     *)
(* initially empty database.                                                *)

HandleBody(h) == AccountBody({"handle", "url"}, h, Url1, "", NULL)

ConcAccountRequests ==
    {Request("POST /accounts", NULL, HandleBody(h)) : h \in {"natgeo", "nasa"}}
    \cup {Request("PATCH /accounts/:id", id, AccountBody({"handle"}, h, "", "", NULL)) :
            id \in AccountIds, h \in {"natgeo", "nasa"}}
    \cup {Request("DELETE /accounts/:id", id, NoBody) : id \in AccountIds}

InitAccountsConc ==
    /\ accounts = {}
    /\ posts = {} /\ media = {} /\ digests = {} /\ digestPosts = {}
    /\ settings = {}
    /\ slot = [c \in {"c1", "c2"} |-> Idle]
    /\ failures = [a \in AccountIds |-> 0]
    /\ attempts = [a \in AccountIds |-> <<>>]
    /\ jobs = NoJobs

ReceiveAccountsConc ==
    \E c \in DOMAIN slot : \E r \in ConcAccountRequests : Receive(c, r)

NextAccountsConc ==
    \/ ReceiveAccountsConc
    \/ RunAccountsPost
    \/ RunAccountsPatch
    \/ RunAccountsDelete

SpecAccountsConc == InitAccountsConc /\ [][NextAccountsConc]_vars

----------------------------------------------------------------------------
(* SpecPosts: two clients whose post requests overlap; both accounts exist. *)

Account(id, handle) ==
    [id |-> id, handle |-> handle, url |-> Url1, createdAt |-> 1,
     status |-> "active", lastCheckedAt |-> NoTime, lastShortcode |-> NULL]

TwoAccounts == {Account("a1", "natgeo"), Account("a2", "nasa")}

\* The same post observed plain, and observed again later with a caption.
Observed(accountId, shortcode) ==
    {PostBody({"accountId", "shortcode", "publishedAt"}, accountId, shortcode, Iso1, "", ""),
     PostBody({"accountId", "shortcode", "publishedAt", "caption"},
              accountId, shortcode, Iso2, "sunset", "")}

ShortcodeBody(shortcode) == PostBody({"shortcode"}, "", shortcode, "", "", "")

Plain(accountId, shortcode) ==
    PostBody({"accountId", "shortcode", "publishedAt"}, accountId, shortcode, Iso1, "", "")

PostRequests ==
    {Request("POST /posts", NULL, b) :
        b \in Observed("a1", "A1") \cup Observed("a1", "A2") \cup {Plain("a2", "A1")}}
    \cup {Request("PATCH /posts/:id", id, ShortcodeBody("A1")) : id \in PostIds}
    \cup {Request("DELETE /posts/:id", id, NoBody) : id \in PostIds}

InitPosts ==
    /\ accounts = TwoAccounts
    /\ posts = {} /\ media = {} /\ digests = {} /\ digestPosts = {}
    /\ settings = {}
    /\ slot = [c \in {"c1", "c2"} |-> Idle]
    /\ failures = [a \in AccountIds |-> 0]
    /\ attempts = [a \in AccountIds |-> <<>>]
    /\ jobs = NoJobs

ReceivePosts == \E c \in DOMAIN slot : \E r \in PostRequests : Receive(c, r)

NextPosts ==
    \/ ReceivePosts
    \/ RunPostsPost
    \/ RunPostsPatch
    \/ RunPostsDelete

SpecPosts == InitPosts /\ [][NextPosts]_vars

----------------------------------------------------------------------------
(* Spec: one client deleting accounts, posts and digests and attaching     *)
(* posts to digests, on a database the fetch job has filled: each account  *)
(* owns a post with one media row, two digests exist.                      *)

Post(id, accountId) ==
    [id |-> id, accountId |-> accountId, shortcode |-> "A1", caption |-> NULL,
     publishedAt |-> 1, raw |-> NULL]

Medium(id, postId) ==
    [id |-> id, postId |-> postId, kind |-> "image", url |-> Url1,
     width |-> 0, height |-> 0, thumbUrl |-> NULL]

Digest(id) == [id |-> id, sentAt |-> 2, periodStart |-> 1, periodEnd |-> 2]

FetchedPosts == {Post("p1", "a1"), Post("p2", "a2")}

FetchedMedia == {Medium("m1", "p1"), Medium("m2", "p2")}

PostIdsBody(postIds) == [keys |-> {"postIds"}, postIds |-> postIds]

CascadeRequests ==
    {Request("DELETE /accounts/:id", id, NoBody) : id \in AccountIds}
    \cup {Request("DELETE /posts/:id", id, NoBody) : id \in PostIds}
    \cup {Request("DELETE /digests/:id", id, NoBody) : id \in DigestIds}
    \cup {Request("POST /digests/:id/posts", id, PostIdsBody(ids)) :
            id \in DigestIds,
            ids \in {<<"p1">>, <<"p2">>, <<"p1", "p2">>, <<"p1", "p1">>, <<>>}}
    \cup {Request("POST /digests/:id/posts", "a1", PostIdsBody(<<"p1">>)),
          Request("POST /digests/:id/posts", "d1", PostIdsBody(<<"m1">>)),
          Request("POST /posts", NULL, Plain("a1", "A2")),
          Request("POST /posts", NULL, Plain("d1", "A2"))}
    \cup {Request(route, id, PostIdsBody(ids)) :
            route \in {"DELETE /digests/:id/posts", DigestsDeletePostsRoute},
            id \in DigestIds, ids \in {<<"p1">>, <<"p1", "p2">>}}
    \cup {Request("GET /media", NULL, NoBody), Request("GET /media/:id", "m1", NoBody)}

Init ==
    /\ accounts = TwoAccounts
    /\ posts \in SUBSET FetchedPosts
    /\ media = {m \in FetchedMedia : m.postId \in Ids(posts)}
    /\ digests = {Digest("d1"), Digest("d2")}
    /\ digestPosts = {}
    /\ settings = {}
    /\ slot = [c \in {"c1"} |-> Idle]
    /\ failures = [a \in AccountIds |-> 0]
    /\ attempts = [a \in AccountIds |-> <<>>]
    /\ jobs = NoJobs

ReceiveCascade == \E c \in DOMAIN slot : \E r \in CascadeRequests : Receive(c, r)

Next ==
    \/ ReceiveCascade
    \/ RunAccountsDelete
    \/ RunPostsPost
    \/ RunPostsDelete
    \/ RunDigestsDelete
    \/ RunDigestsPostPosts
    \/ RunDigestsDeletePosts
    \/ RunMediaGet
    \/ RunMediaGetOne
    \/ RunNotFound

Spec == Init /\ [][Next]_vars

----------------------------------------------------------------------------
(* The Account Health Tracker and the fetch attempts that drive it, as      *)
(* sections 4.3 and 4.4 of the specification describe them; the routes of   *)
(* the API hold no fetch job.  failures[id] is the tracker's count of       *)
(* consecutive failed attempts on account id, attempts[id] the outcomes of  *)
(* the attempts made on it, oldest first.                                   *)

Threshold == 3

MaxAttempts == 4

Attempt(manual, ok) == [manual |-> manual, ok |-> ok]

\* Scheduled cycles take the active accounts; a manual trigger takes any.
Eligible(a, manual) == manual \/ a.status = "active"

Newer(watermark, stored) ==
    IF Newness(watermark) > Newness(stored) THEN watermark ELSE stored

TrackFailure_Late(a, count, now) ==
    [a EXCEPT !.lastCheckedAt = now,
              !.status = IF @ = "active" /\ count > Threshold THEN "error" ELSE @]

\* The row the tracker writes after a failed attempt, count being the
\* consecutive failures including this one.
TrackFailure(a, count, now) ==
    [a EXCEPT !.lastCheckedAt = now,
              !.status = IF @ = "active" /\ count >= Threshold THEN "error" ELSE @]

\* The row the tracker writes after a successful attempt that reported watermark.
TrackSuccess(a, manual, watermark, now) ==
    [a EXCEPT !.lastCheckedAt = now,
              !.lastShortcode = Newer(watermark, @),
              !.status = IF @ = "error" /\ manual THEN "active" ELSE @]

FetchFails(id, manual) ==
    /\ Len(attempts[id]) < MaxAttempts
    /\ \E a \in accounts, now \in Times :
        /\ a.id = id /\ Eligible(a, manual)
        /\ failures' = [failures EXCEPT ![id] = @ + 1]
        /\ accounts' = (accounts \ {a}) \cup {TrackFailure(a, failures[id] + 1, now)}
        /\ attempts' = [attempts EXCEPT ![id] = Append(@, Attempt(manual, FALSE))]
        /\ UNCHANGED <<posts, media, digests, digestPosts, settings, slot, jobs>>

FetchSucceeds(id, manual) ==
    /\ Len(attempts[id]) < MaxAttempts
    /\ \E a \in accounts, now \in Times, watermark \in Shortcodes \cup {NULL} :
        /\ a.id = id /\ Eligible(a, manual)
        /\ failures' = [failures EXCEPT ![id] = 0]
        /\ accounts' = (accounts \ {a}) \cup {TrackSuccess(a, manual, watermark, now)}
        /\ attempts' = [attempts EXCEPT ![id] = Append(@, Attempt(manual, TRUE))]
        /\ UNCHANGED <<posts, media, digests, digestPosts, settings, slot, jobs>>

----------------------------------------------------------------------------
(* SpecHealth: scheduled and manual fetch attempts on one stored account,   *)
(* with one client pausing and resuming it through PATCH /accounts/:id.     *)

HealthRequests ==
    {Request("PATCH /accounts/:id", "a1", AccountBody({"status"}, "", "", st, NULL)) :
        st \in {"active", "paused"}}

InitHealth ==
    /\ accounts = {CheckedAccount}
    /\ posts = {} /\ media = {} /\ digests = {} /\ digestPosts = {}
    /\ settings = {}
    /\ slot = [c \in {"c1"} |-> Idle]
    /\ failures = [a \in AccountIds |-> 0]
    /\ attempts = [a \in AccountIds |-> <<>>]
    /\ jobs = NoJobs

ReceiveHealth == \E c \in DOMAIN slot : \E r \in HealthRequests : Receive(c, r)

ScheduledFetchFails == \E id \in AccountIds : FetchFails(id, FALSE)

ScheduledFetchSucceeds == \E id \in AccountIds : FetchSucceeds(id, FALSE)

ManualFetchFails == \E id \in AccountIds : FetchFails(id, TRUE)

ManualFetchSucceeds == \E id \in AccountIds : FetchSucceeds(id, TRUE)

NextHealth ==
    \/ ReceiveHealth
    \/ RunAccountsPatch
    \/ ScheduledFetchFails
    \/ ScheduledFetchSucceeds
    \/ ManualFetchFails
    \/ ManualFetchSucceeds

SpecHealth == InitHealth /\ [][NextHealth]_vars

----------------------------------------------------------------------------
(* The Fetch Orchestrator and the Post Reconciler, as sections 4.2, 4.4 and *)
(* 5 of the specification describe them.  A fetch attempt on an account     *)
(* holds the account's mutual-exclusion token from its start to the         *)
(* tracker's write: jobs.runs holds the attempts in flight, an attempt      *)
(* passing through the adapter call, the reconciler and the tracker.        *)
(* jobs.cycle is the scheduled cycle: the accounts it set out to fetch,     *)
(* those still to do, those attempted and those skipped as not eligible.    *)
(* jobs.triggers lists the answers given to manual triggers.                *)

MaxCycles == 1

MaxManual == 1

\* What the provider may return for an account: a finite candidate sequence.
Candidates == {<<"A1">>}

ReconcilerIds == PostIds \cup {"p3", "p4"}

ReconcilerMediaIds == MediaIds \cup {"m3", "m4"}

Run(id, manual) ==
    [account |-> id, manual |-> manual, stage |-> "adapter", todo |-> <<>>,
     ok |-> TRUE, watermark |-> NULL]

RunsOf(id) == {r \in jobs.runs : r.account = id}

TokenHeld(id) == RunsOf(id) # {}

AtStage(r, stage) == r \in jobs.runs /\ r.stage = stage

Moved(r, new) == [jobs EXCEPT !.runs = (@ \ {r}) \cup {new}]

\* The periodic timer fires: the cycle takes the accounts active now.
StartCycle ==
    /\ ~jobs.cycle.on /\ jobs.cycles < MaxCycles
    /\ LET set == {a.id : a \in {b \in accounts : Eligible(b, FALSE)}}
       IN  jobs' = [jobs EXCEPT !.cycle = [on |-> TRUE, todo |-> set, set |-> set,
                                           seen |-> {}, skipped |-> {}],
                                !.cycles = @ + 1]
    /\ UNCHANGED <<accounts, posts, media, digests, digestPosts, settings, slot,
                   failures, attempts>>

\* The cycle reaches account id: the attempt starts once the token is free;
\* an account that is no longer eligible is skipped.
BeginScheduled(id) ==
    /\ jobs.cycle.on /\ id \in jobs.cycle.todo
    /\ ~TokenHeld(id)
    /\ IF \E a \in accounts : a.id = id /\ Eligible(a, FALSE)
       THEN jobs' = [jobs EXCEPT !.runs = @ \cup {Run(id, FALSE)},
                                 !.cycle.todo = @ \ {id}]
       ELSE jobs' = [jobs EXCEPT !.cycle.todo = @ \ {id},
                                 !.cycle.skipped = @ \cup {id}]
    /\ UNCHANGED <<accounts, posts, media, digests, digestPosts, settings, slot,
                   failures, attempts>>

Trigger(id, answer) == [account |-> id, answer |-> answer]

\* TriggerManual starting the attempt whether or not one is in flight.
TriggerManual_NoToken(id) ==
    /\ id \in Ids(accounts) /\ Len(jobs.triggers) < MaxManual
    /\ jobs' = [jobs EXCEPT !.runs = @ \cup {Run(id, TRUE)},
                            !.triggers = Append(@, Trigger(id, "started"))]
    /\ UNCHANGED <<accounts, posts, media, digests, digestPosts, settings, slot,
                   failures, attempts>>

\* A manual "fetch now" for account id: rejected as busy while an attempt on
\* the account is in flight.
TriggerManual(id) ==
    /\ id \in Ids(accounts) /\ Len(jobs.triggers) < MaxManual
    /\ IF TokenHeld(id)
       THEN jobs' = [jobs EXCEPT !.triggers = Append(@, Trigger(id, "busy"))]
       ELSE jobs' = [jobs EXCEPT !.runs = @ \cup {Run(id, TRUE)},
                                 !.triggers = Append(@, Trigger(id, "started"))]
    /\ UNCHANGED <<accounts, posts, media, digests, digestPosts, settings, slot,
                   failures, attempts>>

\* ProviderFails letting the error leave the cycle's loop: the accounts still
\* to do are dropped.
ProviderFails_Aborts(r) ==
    /\ AtStage(r, "adapter")
    /\ jobs' = [Moved(r, [r EXCEPT !.stage = "tracker", !.ok = FALSE])
                    EXCEPT !.cycle.todo = IF r.manual THEN @ ELSE {}]
    /\ UNCHANGED <<accounts, posts, media, digests, digestPosts, settings, slot,
                   failures, attempts>>

\* fetchLatest fails with a ProviderError: handled within the account's attempt.
ProviderFails(r) ==
    /\ AtStage(r, "adapter")
    /\ jobs' = Moved(r, [r EXCEPT !.stage = "tracker", !.ok = FALSE])
    /\ UNCHANGED <<accounts, posts, media, digests, digestPosts, settings, slot,
                   failures, attempts>>

\* fetchLatest returns its candidates.
ProviderReturns(r) ==
    /\ AtStage(r, "adapter")
    /\ \E found \in Candidates :
          jobs' = Moved(r, [r EXCEPT !.stage = "reconciler", !.todo = found])
    /\ UNCHANGED <<accounts, posts, media, digests, digestPosts, settings, slot,
                   failures, attempts>>

\* The post row and the media row of one candidate; which new uuid is drawn
\* makes no difference to what follows.
CandidatePost(db, id, shortcode) ==
    [id |-> CHOOSE u \in Draw(ReconcilerIds, db.posts) : TRUE,
     accountId |-> id, shortcode |-> shortcode, caption |-> NULL,
     publishedAt |-> Newness(shortcode), raw |-> NULL]

CandidateMedium(db, post) ==
    Medium(CHOOSE u \in Draw(ReconcilerMediaIds, db.media) : TRUE, post.id)

\* The reconciler takes the next candidate: the post and its media go in as
\* one unit; a conflict on the unique index counts as skipped.  With no
\* candidate left the attempt goes on to the tracker.
Reconcile(r) ==
    /\ AtStage(r, "reconciler")
    /\ IF r.todo = <<>>
       THEN /\ jobs' = Moved(r, [r EXCEPT !.stage = "tracker"])
            /\ UNCHANGED <<accounts, posts, media, digests, digestPosts, settings>>
       ELSE LET row == CandidatePost(Db, r.account, Head(r.todo))
                res == InsertPost(Db, row)
                rest == [r EXCEPT !.todo = Tail(@),
                                  !.watermark = Newer(Head(r.todo), @)]
            IN  IF res.err = NoError
                THEN /\ SetDb([res.db EXCEPT !.media = @ \cup {CandidateMedium(Db, row)}])
                     /\ jobs' = Moved(r, rest)
                ELSE IF IsConstraint(res.err, <<"UNIQUE constraint">>)
                THEN /\ SetDb(Db)
                     /\ jobs' = Moved(r, rest)
                ELSE /\ SetDb(Db)
                     /\ jobs' = Moved(r, [r EXCEPT !.stage = "tracker", !.ok = FALSE])
    /\ UNCHANGED <<slot, failures, attempts>>

\* The clock reading the tracker stamps: no reading is later.
Latest == CHOOSE t \in Times : \A u \in Times : t >= u

\* The tracker writes the outcome on the account and the attempt ends,
\* giving the token back.
Track(r) ==
    /\ AtStage(r, "tracker")
    /\ accounts' =
            {IF a.id # r.account THEN a
             ELSE IF r.ok THEN TrackSuccess(a, r.manual, r.watermark, Latest)
             ELSE TrackFailure(a, failures[a.id] + 1, Latest) : a \in accounts}
    /\ failures' = [failures EXCEPT ![r.account] = IF r.ok THEN 0 ELSE @ + 1]
    /\ attempts' = [attempts EXCEPT ![r.account] = Append(@, Attempt(r.manual, r.ok))]
    /\ jobs' = [jobs EXCEPT !.runs = @ \ {r},
                            !.cycle.seen = IF r.manual THEN @ ELSE @ \cup {r.account}]
    /\ UNCHANGED <<posts, media, digests, digestPosts, settings, slot>>

\* The cycle ends when no account is left and its attempts are over.
EndCycle ==
    /\ jobs.cycle.on /\ jobs.cycle.todo = {}
    /\ \A r \in jobs.runs : r.manual
    /\ jobs' = [jobs EXCEPT !.cycle.on = FALSE]
    /\ UNCHANGED <<accounts, posts, media, digests, digestPosts, settings, slot,
                   failures, attempts>>

----------------------------------------------------------------------------
(* SpecFetch: one scheduled cycle over both accounts and manual triggers,   *)
(* with one client posting through POST /posts a post the provider returns  *)
(* as well.                                                                 *)

FetchRequests == {Request("POST /posts", NULL, Plain("a1", "A1"))}

InitFetch ==
    /\ accounts = TwoAccounts
    /\ posts = {} /\ media = {} /\ digests = {} /\ digestPosts = {}
    /\ settings = {}
    /\ slot = [c \in {"c1"} |-> Idle]
    /\ failures = [a \in AccountIds |-> 0]
    /\ attempts = [a \in AccountIds |-> <<>>]
    /\ jobs = NoJobs

ReceiveFetch == \E c \in DOMAIN slot : \E r \in FetchRequests : Receive(c, r)

ScheduledBegins == \E id \in AccountIds : BeginScheduled(id)

ManualTriggered == \E id \in AccountIds : TriggerManual(id)

AdapterFails == \E r \in jobs.runs : ProviderFails(r)

AdapterReturns == \E r \in jobs.runs : ProviderReturns(r)

Reconciles == \E r \in jobs.runs : Reconcile(r)

Tracks == \E r \in jobs.runs : Track(r)

NextFetch ==
    \/ ReceiveFetch
    \/ RunPostsPost
    \/ StartCycle
    \/ ScheduledBegins
    \/ ManualTriggered
    \/ AdapterFails
    \/ AdapterReturns
    \/ Reconciles
    \/ Tracks
    \/ EndCycle

SpecFetch == InitFetch /\ [][NextFetch]_vars

----------------------------------------------------------------------------
(* The Digest Composer, as sections 4.5 and 5 of the specification describe *)
(* it: a snapshot selection of the posts of a period, then the digest row   *)
(* and its memberships recorded, then the send, best effort.  jobs.drafts   *)
(* holds the selections not yet recorded, jobs.mail the state of each       *)
(* recorded digest's send.                                                  *)

\* The periods [start, end) a composition may be asked for.
Periods == {<<1, 2>>, <<2, 3>>, <<1, 3>>}

InPeriod_Closed(t, period) == period[1] <= t /\ t <= period[2]

\* start <= t < end
InPeriod(t, period) == period[1] <= t /\ t < period[2]

\* db.insert(digests).values(row).returning(): id is the primary key.
InsertDigest(db, row) ==
    IF \E d \in db.digests : d.id = row.id
    THEN Raised(db, UniqueFailed("digests.id"))
    ELSE [err |-> NoError, rows |-> {row}, db |-> [db EXCEPT !.digests = @ \cup {row}]]

RECURSIVE Listed(_)
Listed(ids) ==
    IF ids = {} THEN <<>>
    ELSE LET x == CHOOSE y \in ids : TRUE IN <<x>> \o Listed(ids \ {x})

Draft(period, selected) == [period |-> period, selected |-> selected]

Mail(digestId, state, error) == [digest |-> digestId, state |-> state, error |-> error]

\* The selection query: a snapshot of the posts published in the period.
Select(period) ==
    /\ FreshIds(DigestIds, digests) # {}
    /\ jobs.drafts = {}
    /\ jobs' = [jobs EXCEPT !.drafts =
                    {Draft(period, {p.id : p \in {q \in posts :
                                                    InPeriod(q.publishedAt, period)}})}]
    /\ UNCHANGED <<accounts, posts, media, digests, digestPosts, settings, slot,
                   failures, attempts>>

\* The posts of a selection that go into the new digest: those stored and
\* not attached to another digest.
Attachable(db, selected) ==
    {id \in selected : /\ id \in Ids(db.posts)
                       /\ ~\E dp \in db.digestPosts : dp.postId = id}

\* The digest row and its memberships are recorded before anything is sent.
Record(draft) ==
    /\ draft \in jobs.drafts
    /\ \E id \in FreshIds(DigestIds, digests) :
          LET row == [id |-> id, sentAt |-> draft.period[2],
                      periodStart |-> draft.period[1], periodEnd |-> draft.period[2]]
              made == InsertDigest(Db, row)
              ids == Listed(Attachable(made.db, draft.selected))
              values == [i \in 1..Len(ids) |-> Membership(id, ids[i])]
              res == IF ids = <<>> THEN made ELSE InsertDigestPosts(made.db, values)
          IN  /\ SetDb(res.db)
              /\ jobs' = [jobs EXCEPT !.drafts = @ \ {draft},
                                      !.mail = @ \cup {Mail(id, "unsent", FALSE)}]
    /\ UNCHANGED <<slot, failures, attempts>>

\* SendFails undoing what was recorded for the digest.
SendFails_RollsBack(mail) ==
    /\ mail \in jobs.mail /\ mail.state = "unsent"
    /\ SetDb(DeleteDigest(Db, mail.digest).db)
    /\ jobs' = [jobs EXCEPT !.mail = (@ \ {mail}) \cup {[mail EXCEPT !.error = TRUE]}]
    /\ UNCHANGED <<slot, failures, attempts>>

\* The email transport fails: the SendError is recorded, the digest stays to
\* be sent again.
SendFails(mail) ==
    /\ mail \in jobs.mail /\ mail.state = "unsent"
    /\ jobs' = [jobs EXCEPT !.mail = (@ \ {mail}) \cup {[mail EXCEPT !.error = TRUE]}]
    /\ UNCHANGED <<accounts, posts, media, digests, digestPosts, settings, slot,
                   failures, attempts>>

\* The email transport accepts the digest, at the first send or at a resend.
SendSucceeds(mail) ==
    /\ mail \in jobs.mail /\ mail.state = "unsent"
    /\ jobs' = [jobs EXCEPT !.mail = (@ \ {mail}) \cup {[mail EXCEPT !.state = "sent"]}]
    /\ UNCHANGED <<accounts, posts, media, digests, digestPosts, settings, slot,
                   failures, attempts>>

----------------------------------------------------------------------------
(* SpecDigest: digests composed over one account's two posts, published at *)
(* 1 and at 2, with one client attaching a post by hand through             *)
(* POST /digests/:id/posts.                                                 *)

DigestedPosts ==
    {Post("p1", "a1"), [Post("p2", "a1") EXCEPT !.shortcode = "A2", !.publishedAt = 2]}

DigestRequests ==
    {Request("POST /digests/:id/posts", id, PostIdsBody(<<"p1">>)) : id \in DigestIds}

InitDigest ==
    /\ accounts = TwoAccounts
    /\ posts = DigestedPosts
    /\ media = {} /\ digests = {} /\ digestPosts = {}
    /\ settings = {}
    /\ slot = [c \in {"c1"} |-> Idle]
    /\ failures = [a \in AccountIds |-> 0]
    /\ attempts = [a \in AccountIds |-> <<>>]
    /\ jobs = NoJobs

ReceiveDigest == \E c \in DOMAIN slot : \E r \in DigestRequests : Receive(c, r)

Selects == \E period \in Periods : Select(period)

Records == \E draft \in jobs.drafts : Record(draft)

TransportFails == \E mail \in jobs.mail : SendFails(mail)

TransportAccepts == \E mail \in jobs.mail : SendSucceeds(mail)

NextDigest ==
    \/ ReceiveDigest
    \/ RunDigestsPostPosts
    \/ Selects
    \/ Records
    \/ TransportFails
    \/ TransportAccepts

SpecDigest == InitDigest /\ [][NextDigest]_vars

----------------------------------------------------------------------------
(* SpecPatch: one client sending PATCH requests to accounts, posts, digests *)
(* and the settings, with bodies that carry updatable fields, none, or only *)
(* keys the schemas do not name, to rows that exist and rows that do not.   *)

PostsPatchBodies ==
    {PostBody({}, "", "", "", "", ""),
     PostBody({"accountId"}, "a2", "", "", "", ""),
     PostBody({"caption"}, "", "", "", "sunset", ""),
     PostBody({"shortcode", "publishedAt"}, "", "A2", Iso2, "", "")}

DigestsPatchBodies ==
    {DigestBody({}, "", "", ""),
     DigestBody({"id"}, "", "", ""),
     DigestBody({"sentAt"}, Iso1, "", ""),
     DigestBody({"periodEnd"}, "", "", "tomorrow")}

SettingsPatchBodies ==
    {SettingsBody({}, "", FALSE),
     SettingsBody({"id"}, "", FALSE),
     SettingsBody({"digestFrequency"}, "weekly", FALSE),
     SettingsBody({"instantAlerts"}, "", TRUE)}

PatchRequests ==
    {Request("PATCH /accounts/:id", id, b) :
        id \in {"a1", "p1"},
        b \in {AccountBody({}, "", "", "", NULL),
               AccountBody({"lastShortcode"}, "", "", "", "A1"),
               AccountBody({"status", "lastShortcode"}, "", "", "paused", "A1"),
               AccountBody({"handle", "url"}, "tate", Url2, "", NULL)}}
    \cup {Request("PATCH /posts/:id", id, b) : id \in {"p1", "a1"}, b \in PostsPatchBodies}
    \cup {Request("PATCH /digests/:id", id, b) : id \in DigestIds, b \in DigestsPatchBodies}
    \cup {Request("PATCH /settings", NULL, b) : b \in SettingsPatchBodies}

InitPatch ==
    /\ accounts = {CheckedAccount, Account("a2", "nasa")}
    /\ posts = FetchedPosts
    /\ media = FetchedMedia
    /\ digests = {Digest("d1")}
    /\ digestPosts = {Membership("d1", "p1")}
    /\ settings \in {{}, {DefaultSettings}}
    /\ slot = [c \in {"c1"} |-> Idle]
    /\ failures = [a \in AccountIds |-> 0]
    /\ attempts = [a \in AccountIds |-> <<>>]
    /\ jobs = NoJobs

ReceivePatch == \E c \in DOMAIN slot : \E r \in PatchRequests : Receive(c, r)

NextPatch ==
    \/ ReceivePatch
    \/ RunAccountsPatch
    \/ RunPostsPatch
    \/ RunDigestsPatch
    \/ RunSettingsPatch

SpecPatch == InitPatch /\ [][NextPatch]_vars

----------------------------------------------------------------------------
(* SpecRead: two clients; GET /posts and GET /posts/:id/media overlap with  *)
(* each other and with a DELETE /posts/:id and a POST /posts.  Three posts  *)
(* are stored, two of them published at the same time; one has a media row. *)

ReadPosts ==
    {Post("p1", "a1"),
     [Post("p2", "a1") EXCEPT !.shortcode = "A2", !.publishedAt = 2],
     [Post("p3", "a2") EXCEPT !.publishedAt = 2]}

Queries ==
    {Query({}, "", "")}
    \cup {Query({"page", "limit"}, page, limit) :
            page \in {"1", "2", "3"}, limit \in {"1", "2"}}
    \cup {Query({"limit"}, "", limit) : limit \in {"2.5", "101", "0", "abc"}}
    \cup {Query({"page"}, page, "") : page \in {"0", "1.5"}}

ReadRequests ==
    {Request("GET /posts/:id/media", id, NoBody) : id \in {"p1", "p2", "a1", "7"}}
    \cup {Request("GET /posts", NULL, q) : q \in Queries}
    \cup {Request("DELETE /posts/:id", "p1", NoBody),
          Request("POST /posts", NULL, Plain("a2", "A2"))}

InitRead ==
    /\ accounts = TwoAccounts
    /\ posts = ReadPosts
    /\ media = {Medium("m1", "p1")}
    /\ digests = {} /\ digestPosts = {}
    /\ settings = {}
    /\ slot = [c \in {"c1", "c2"} |-> Idle]
    /\ failures = [a \in AccountIds |-> 0]
    /\ attempts = [a \in AccountIds |-> <<>>]
    /\ jobs = NoJobs

ReceiveRead == \E c \in DOMAIN slot : \E r \in ReadRequests : Receive(c, r)

NextRead ==
    \/ ReceiveRead
    \/ RunPostsMediaFind
    \/ RunPostsMediaSelect
    \/ RunPostsGetMany
    \/ RunPostsGetCount
    \/ RunPostsDelete
    \/ RunPostsPost

SpecRead == InitRead /\ [][NextRead]_vars

----------------------------------------------------------------------------
(* SpecSettings: two clients whose GET /settings and PATCH /settings        *)
(* requests overlap, on an initially empty settings table.                  *)

SettingsRequests ==
    {Request("GET /settings", NULL, NoBody)}
    \cup {Request("PATCH /settings", NULL, b) :
            b \in {SettingsBody({"digestFrequency"}, "weekly", FALSE),
                   SettingsBody({"instantAlerts"}, "", TRUE),
                   SettingsBody({"digestFrequency"}, "monthly", FALSE),
                   SettingsBody({}, "", FALSE)}}

InitSettings ==
    /\ accounts = {}
    /\ posts = {} /\ media = {} /\ digests = {} /\ digestPosts = {}
    /\ settings = {}
    /\ slot = [c \in {"c1", "c2"} |-> Idle]
    /\ failures = [a \in AccountIds |-> 0]
    /\ attempts = [a \in AccountIds |-> <<>>]
    /\ jobs = NoJobs

ReceiveSettings == \E c \in DOMAIN slot : \E r \in SettingsRequests : Receive(c, r)

NextSettings ==
    \/ ReceiveSettings
    \/ RunSettingsSelect
    \/ RunSettingsInsert
    \/ RunSettingsPatch

SpecSettings == InitSettings /\ [][NextSettings]_vars

----------------------------------------------------------------------------
(* Steps and states the properties speak of.                                *)

\* In this step the statement of c's pending request on `route` runs.
Runs(c, route) == Running(c, route) /\ slot'[c].phase = "done"

DbUnchanged == UNCHANGED <<accounts, posts, media, digests, digestPosts, settings>>

\* Both answered, and each was pending while the other was.
Overlapped(c, d) ==
    /\ c # d
    /\ slot[c].phase = "done" /\ slot[d].phase = "done"
    /\ d \in slot[c].with /\ c \in slot[d].with

Codes(c, d) == {slot[c].code, slot[d].code}

----------------------------------------------------------------------------
(* C1: at most one post row per (accountId, shortcode) in every reachable  *)
(* state, whatever POST /posts and PATCH /posts/:id requests interleave;   *)
(* of two overlapping POST /posts with the same (accountId, shortcode)     *)
(* exactly one inserts the row and the other is answered 409 (both are     *)
(* answered 409 when the row was stored before them).                      *)

PostsUnique ==
    \A p, q \in posts : (p.accountId = q.accountId /\ p.shortcode = q.shortcode) => p = q

Stored(accountId, shortcode) ==
    {p \in posts : p.accountId = accountId /\ p.shortcode = shortcode}

OneOfTwoInserts ==
    \A c, d \in DOMAIN slot :
        (/\ Overlapped(c, d)
         /\ slot[c].r.route = "POST /posts" /\ slot[d].r.route = "POST /posts"
         /\ slot[c].r.body.accountId = slot[d].r.body.accountId
         /\ slot[c].r.body.shortcode = slot[d].r.body.shortcode)
        => LET row == Stored(slot[c].r.body.accountId, slot[c].r.body.shortcode)
               made == {slot[c].id, slot[d].id}
           IN  /\ Cardinality(row) = 1
               /\ \/ Codes(c, d) = {201, 409} /\ Ids(row) \subseteq made
                  \/ Codes(c, d) = {409} /\ Ids(row) \cap made = {}

C1_PostsUnique == PostsUnique /\ OneOfTwoInserts

C1_Witness ==
    /\ Overlapped("c1", "c2")
    /\ slot["c1"].r.route = "POST /posts" /\ slot["c2"].r.route = "POST /posts"
    /\ slot["c1"].r.body.accountId = "a1" /\ slot["c2"].r.body.accountId = "a1"
    /\ slot["c1"].r.body.shortcode = "A1" /\ slot["c2"].r.body.shortcode = "A1"
    /\ slot["c1"].code = 201 /\ slot["c2"].code = 409
    /\ \E p \in posts : p.accountId = "a2" /\ p.shortcode = "A1"

----------------------------------------------------------------------------
(* C2: submitting the same sequence of posts of one account twice leaves   *)
(* the stored rows as the first submission left them: the second run       *)
(* inserts nothing and overwrites no caption or publishedAt.               *)

SparePostIds == {"p3", "p4", "p5", "p6"}

\* POST /posts for each body of the sequence in turn, each with a new uuid.
RECURSIVE SubmitAll(_, _)
SubmitAll(db, bodies) ==
    IF bodies = <<>> THEN db
    ELSE LET id == CHOOSE i \in PostIds \cup SparePostIds : i \notin Ids(db.posts)
         IN  SubmitAll(PostsPost(db, newPostSchema(Head(bodies)).output, id).db,
                       Tail(bodies))

Submissions ==
    LET bodies == Observed("a1", "A1") \cup Observed("a1", "A2")
    IN  {<<b>> : b \in bodies} \cup {<<b, e>> : b \in bodies, e \in bodies}

C2_Resubmission ==
    \A bodies \in Submissions :
        LET once == SubmitAll(Db, bodies)
        IN  /\ SubmitAll(once, bodies) = once
            /\ \A i \in 1..Len(bodies) : \A id \in SparePostIds \ Ids(once.posts) :
                  LET again == PostsPost(once, newPostSchema(bodies[i]).output, id)
                  IN  again.db = once /\ again.code = 409

\* A post stored without caption was submitted again with one: answered 409,
\* the stored row keeps its caption and publishedAt.
C2_Witness ==
    \E c \in DOMAIN slot :
        /\ slot[c].phase = "done" /\ slot[c].code = 409
        /\ slot[c].r.route = "POST /posts"
        /\ slot[c].r.body.caption = "sunset"
        /\ \E p \in Stored(slot[c].r.body.accountId, slot[c].r.body.shortcode) :
              p.caption = NULL /\ p.publishedAt = 1

----------------------------------------------------------------------------
(* C3: DELETE /accounts/:id of a stored account removes the account, its   *)
(* posts and their media, also when a post is a member of a digest, and    *)
(* removes no row of another account.                                      *)

C3_AccountDeleteCascades ==
    [][\A c \in DOMAIN slot :
          (Runs(c, "DELETE /accounts/:id") /\ slot[c].r.id \in Ids(accounts))
          => LET owned == {p \in posts : p.accountId = slot[c].r.id}
             IN  /\ accounts' = {a \in accounts : a.id # slot[c].r.id}
                 /\ posts' = posts \ owned
                 /\ media' = {m \in media : m.postId \notin Ids(owned)}]_vars

----------------------------------------------------------------------------
(* C4: DELETE /posts/:id of a stored post removes the post, its media and  *)
(* its digest memberships and no digest, in particular when the post is a  *)
(* member of a digest.                                                     *)

C4_PostDeleteCascades ==
    [][\A c \in DOMAIN slot :
          (Runs(c, "DELETE /posts/:id") /\ slot[c].r.id \in Ids(posts))
          => /\ posts' = {p \in posts : p.id # slot[c].r.id}
             /\ media' = {m \in media : m.postId # slot[c].r.id}
             /\ digestPosts' = {dp \in digestPosts : dp.postId # slot[c].r.id}
             /\ digests' = digests]_vars

----------------------------------------------------------------------------
(* C5: a post is a member of at most one digest; POST /digests/:id/posts   *)
(* naming a post that is a member of another digest does not succeed and   *)
(* adds no membership row.                                                 *)

DigestExclusive ==
    \A x, y \in digestPosts : x.postId = y.postId => x.digestId = y.digestId

InAnotherDigest(digestId, postIds) ==
    \E dp \in digestPosts :
        dp.digestId # digestId /\ \E i \in 1..Len(postIds) : postIds[i] = dp.postId

C5_DigestExclusive ==
    [][/\ DigestExclusive'
       /\ \A c \in DOMAIN slot :
            (/\ Runs(c, "POST /digests/:id/posts")
             /\ InAnotherDigest(slot[c].r.id, slot[c].r.body.postIds))
            => slot'[c].code # 201 /\ digestPosts' = digestPosts]_vars

----------------------------------------------------------------------------
(* C6: no two accounts share a handle; a POST /accounts with a stored      *)
(* handle and a PATCH /accounts/:id moving a handle onto another account's  *)
(* are answered 409 and change no row; of two overlapping POST /accounts   *)
(* with the same handle exactly one creates the account (the other is      *)
(* answered 409), unless the handle was stored before both.                 *)

HandleUnique == \A a, b \in accounts : a.handle = b.handle => a = b

OneOfTwoCreates ==
    \A c, d \in DOMAIN slot :
        (/\ Overlapped(c, d)
         /\ slot[c].r.route = "POST /accounts" /\ slot[d].r.route = "POST /accounts"
         /\ slot[c].r.body.handle = slot[d].r.body.handle)
        => \/ /\ Codes(c, d) = {201, 409}
              /\ \E a \in accounts : /\ a.handle = slot[c].r.body.handle
                                     /\ a.id \in {slot[c].id, slot[d].id}
           \/ /\ Codes(c, d) = {409}
              /\ \E a \in accounts : a.handle = slot[c].r.body.handle

DuplicateHandleRejected ==
    \A c \in DOMAIN slot :
        /\ (/\ Runs(c, "POST /accounts")
            /\ \E a \in accounts : a.handle = slot[c].r.body.handle)
           => slot'[c].code = 409 /\ DbUnchanged
        /\ (/\ Runs(c, "PATCH /accounts/:id")
            /\ "handle" \in slot[c].r.body.keys
            /\ slot[c].r.id \in Ids(accounts)
            /\ \E a \in accounts : /\ a.id # slot[c].r.id
                                   /\ a.handle = slot[c].r.body.handle)
           => slot'[c].code = 409 /\ DbUnchanged

C6_HandleUnique ==
    [][HandleUnique' /\ OneOfTwoCreates' /\ DuplicateHandleRejected]_vars

C6_Witness ==
    /\ Overlapped("c1", "c2")
    /\ slot["c1"].r = Request("POST /accounts", NULL, HandleBody("natgeo"))
    /\ slot["c2"].r = Request("POST /accounts", NULL, HandleBody("natgeo"))
    /\ slot["c1"].code = 409 /\ slot["c2"].code = 201
    /\ Cardinality(accounts) = 2

----------------------------------------------------------------------------
(* C7: the stored cursor (lastShortcode) of an account never regresses:    *)
(* across every step the value stored on an account is at least the value  *)
(* stored before.                                                           *)

C7_CursorMonotone ==
    [][\A a \in accounts : \A b \in accounts' :
          a.id = b.id => Newness(b.lastShortcode) >= Newness(a.lastShortcode)]_vars

\* A PATCH carrying an older lastShortcode was answered 200 on the checked account.
C7_Witness ==
    \E c \in DOMAIN slot :
        /\ slot[c].phase = "done" /\ slot[c].code = 200
        /\ slot[c].r.route = "PATCH /accounts/:id"
        /\ "lastShortcode" \in slot[c].r.body.keys
        /\ \E a \in accounts : /\ a.id = slot[c].r.id
                               /\ Newness(a.lastShortcode) > Newness(slot[c].r.body.lastShortcode)

----------------------------------------------------------------------------
(* C8: an active account whose latest Threshold (3) fetch attempts all      *)
(* failed, none succeeding in between, has status error after the third     *)
(* failure; a successful manual fetch of an account in status error sets    *)
(* its status back to active.                                               *)

Attempted(id) == Len(attempts'[id]) = Len(attempts[id]) + 1

LastFailed(log, n) ==
    /\ Len(log) >= n
    /\ \A i \in (Len(log) - n + 1)..Len(log) : ~log[i].ok

ManualSuccess(log) == log[Len(log)].ok /\ log[Len(log)].manual

C8_HealthTransition ==
    [][\A a \in accounts : \A b \in accounts' :
          (a.id = b.id /\ Attempted(a.id)) =>
             /\ (a.status = "active" /\ LastFailed(attempts'[a.id], Threshold))
                => b.status = "error"
             /\ (a.status = "error" /\ ManualSuccess(attempts'[a.id]))
                => b.status = "active"]_vars

\* Three failed attempts and then a successful manual fetch, no request of
\* the client in between: the account is active again.
C8_Witness ==
    /\ slot["c1"] = Idle
    /\ attempts["a1"] = <<Attempt(FALSE, FALSE), Attempt(FALSE, FALSE),
                          Attempt(FALSE, FALSE), Attempt(TRUE, TRUE)>>
    /\ \E a \in accounts : a.id = "a1" /\ a.status = "active"

----------------------------------------------------------------------------
(* C9: every change of an account's status is a listed transition          *)
(* (active -> error only at the failure threshold, error -> active,        *)
(* active <-> paused), and no account is created in status error.           *)

ListedTransition(a, b) ==
    \/ a.status = b.status
    \/ a.status = "active" /\ b.status = "error" /\ failures'[a.id] >= Threshold
    \/ a.status = "error" /\ b.status = "active"
    \/ a.status = "active" /\ b.status = "paused"
    \/ a.status = "paused" /\ b.status = "active"

C9_ListedTransitionsOnly ==
    [][\A b \in accounts' :
          /\ b.id \notin Ids(accounts) => b.status # "error"
          /\ \A a \in accounts : a.id = b.id => ListedTransition(a, b)]_vars

----------------------------------------------------------------------------
(* C10: a paused account stays paused across every step except a           *)
(* PATCH /accounts/:id on that account whose body carries status.          *)

StatusPatch(id) ==
    \E c \in DOMAIN slot :
        /\ Runs(c, "PATCH /accounts/:id")
        /\ slot[c].r.id = id
        /\ "status" \in slot[c].r.body.keys

C10_PausedStays ==
    [][\A a \in accounts : \A b \in accounts' :
          (a.id = b.id /\ a.status = "paused" /\ ~StatusPatch(a.id))
          => b.status = "paused"]_vars

\* A PATCH without status was answered 200 on an account that is paused.
C10_Witness ==
    \E c \in DOMAIN slot :
        /\ slot[c].phase = "done" /\ slot[c].code = 200
        /\ slot[c].r.route = "PATCH /accounts/:id"
        /\ slot[c].r.body.keys = {"url"}
        /\ \E a \in accounts : /\ a.id = slot[c].r.id
                               /\ a.status = "paused" /\ a.url = Url2

----------------------------------------------------------------------------
(* C11: the settings table holds at most one row and that row has id 1;    *)
(* once a GET /settings was answered 200 exactly one row exists, and no     *)
(* step removes the row or adds a second one.                               *)

SettingsSingleton ==
    /\ Cardinality(settings) <= 1
    /\ \A s \in settings : s.id = 1

SettingsAnswered ==
    \E c \in DOMAIN slot :
        /\ slot[c].phase = "done" /\ slot[c].code = 200
        /\ slot[c].r.route = "GET /settings"

C11_SettingsSingleton ==
    [][/\ SettingsSingleton'
       /\ SettingsAnswered' => Cardinality(settings') = 1
       /\ settings # {} => Cardinality(settings') = 1]_vars

\* Two overlapping GET /settings both ran their insert after a PATCH changed
\* the row the first had created: still one row.
C11_Witness ==
    /\ Overlapped("c1", "c2")
    /\ slot["c2"].r.route = "GET /settings" /\ slot["c2"].phase = "done"
    /\ slot["c2"].code = 500
    /\ slot["c1"].r.route = "PATCH /settings" /\ slot["c1"].code = 200
    /\ settings = {[DefaultSettings EXCEPT !.digestFrequency = "weekly"]}

----------------------------------------------------------------------------
(* C12: every GET /settings is answered without error and leaves the       *)
(* singleton row stored, also when two GET /settings overlap on an empty    *)
(* table.                                                                   *)

C12_SettingsGetOrCreate ==
    \A c \in DOMAIN slot :
        (slot[c].phase = "done" /\ slot[c].r.route = "GET /settings")
        => slot[c].code = 200 /\ Cardinality(settings) = 1

----------------------------------------------------------------------------
(* C13: no step adds or changes a media row, a media row is removed only    *)
(* in the step that removes its owning post, and every media row is owned   *)
(* by exactly one stored post.                                              *)

MediaOwned == \A x \in media : Cardinality({p \in posts : p.id = x.postId}) = 1

C13_MediaOnlyWithPost ==
    [][/\ MediaOwned'
       /\ media' \subseteq media
       /\ media \ media' = {x \in media : x.postId \in Ids(posts) \ Ids(posts')}]_vars

\* DELETE /accounts/a1 was answered 200: the media row of its post went with it.
C13_Witness ==
    /\ slot["c1"].phase = "done" /\ slot["c1"].code = 200
    /\ slot["c1"].r = Request("DELETE /accounts/:id", "a1", NoBody)
    /\ media = {Medium("m2", "p2")}
    /\ Ids(posts) = {"p2"}

----------------------------------------------------------------------------
(* C14: DELETE /digests/:id of a stored digest removes that digest and      *)
(* exactly its own membership rows; accounts, posts, media and the          *)
(* memberships of every other digest are unchanged.                         *)

C14_DigestDeleteFrame ==
    [][\A c \in DOMAIN slot :
          (Runs(c, "DELETE /digests/:id") /\ slot[c].r.id \in Ids(digests))
          => /\ slot'[c].code = 200
             /\ digests' = {d \in digests : d.id # slot[c].r.id}
             /\ digestPosts' = {dp \in digestPosts : dp.digestId # slot[c].r.id}
             /\ UNCHANGED <<accounts, posts, media>>]_vars

\* DELETE /digests/d1 was answered 200; a membership of d2 and both posts
\* are still stored.
C14_Witness ==
    /\ slot["c1"].phase = "done" /\ slot["c1"].code = 200
    /\ slot["c1"].r = Request("DELETE /digests/:id", "d1", NoBody)
    /\ Ids(digests) = {"d2"}
    /\ digestPosts = {Membership("d2", "p1")}
    /\ posts = FetchedPosts /\ media = FetchedMedia

----------------------------------------------------------------------------
(* C19: POST /digests/:id/posts inserts a membership row for every post of  *)
(* postIds and is answered 201, or inserts none; when a (digest, post) of   *)
(* the batch is a member already, or a post id is repeated in the batch,    *)
(* it is answered 409 and the memberships are unchanged.                    *)

Repeated(seq) == Cardinality(Elems(seq)) < Len(seq)

C19_AttachAllOrNothing ==
    [][\A c \in DOMAIN slot :
          Runs(c, "POST /digests/:id/posts")
          => LET want == {Membership(slot[c].r.id, p) : p \in Elems(slot[c].r.body.postIds)}
             IN  /\ \/ /\ slot'[c].code = 201
                       /\ want \cap digestPosts = {}
                       /\ digestPosts' = digestPosts \cup want
                    \/ /\ slot'[c].code # 201
                       /\ digestPosts' = digestPosts
                 /\ (want \cap digestPosts # {} \/ Repeated(slot[c].r.body.postIds))
                    => slot'[c].code = 409 /\ digestPosts' = digestPosts]_vars

\* A batch repeating p1 was answered 409 and left no membership behind.
C19_Witness ==
    /\ slot["c1"].phase = "done" /\ slot["c1"].code = 409
    /\ slot["c1"].r = Request("POST /digests/:id/posts", "d1", PostIdsBody(<<"p1", "p1">>))
    /\ digestPosts = {}
    /\ "p1" \in Ids(posts)

----------------------------------------------------------------------------
(* C20: a DELETE request to /digests/:id/posts removes exactly the          *)
(* memberships of digest :id whose post is in postIds and changes no other  *)
(* membership, post or digest; when no membership matches it is answered    *)
(* 404 and changes nothing.                                                 *)

Matching(digestId, postIds) ==
    {dp \in digestPosts : dp.digestId = digestId /\ dp.postId \in Elems(postIds)}

C20_DetachFrame ==
    [][\A c \in DOMAIN slot :
          Runs(c, "DELETE /digests/:id/posts")
          => LET hit == Matching(slot[c].r.id, slot[c].r.body.postIds)
             IN  /\ digestPosts' = digestPosts \ hit
                 /\ UNCHANGED <<accounts, posts, media, digests>>
                 /\ hit = {} => slot'[c].code = 404
                 /\ hit # {} => slot'[c].code = 200]_vars

----------------------------------------------------------------------------
(* C15: at most one fetch attempt on an account is in flight at any time;   *)
(* a manual trigger for an account whose attempt is in flight is answered   *)
(* busy and starts nothing, so the posts and the cursor of an account are   *)
(* written by one attempt at a time.                                        *)

OneAttemptPerAccount == \A id \in AccountIds : Cardinality(RunsOf(id)) <= 1

Triggered(id) ==
    /\ Len(jobs'.triggers) = Len(jobs.triggers) + 1
    /\ jobs'.triggers[Len(jobs'.triggers)].account = id

C15_FetchSerialized ==
    [][/\ OneAttemptPerAccount'
       /\ \A id \in AccountIds :
            (Triggered(id) /\ TokenHeld(id))
            => /\ jobs'.triggers[Len(jobs'.triggers)].answer = "busy"
               /\ jobs'.runs = jobs.runs]_vars

\* A manual trigger for a1 was answered busy while the scheduled attempt on
\* a1 is with the reconciler.
C15_Witness ==
    /\ jobs.triggers = <<Trigger("a1", "busy")>>
    /\ \E r \in jobs.runs : r.account = "a1" /\ ~r.manual /\ r.stage = "reconciler"

----------------------------------------------------------------------------
(* C16: a provider error or a duplicate-key conflict on one account leaves  *)
(* the scheduled cycle running with the accounts still to do, and when the  *)
(* cycle ends every account it set out with was attempted or had become     *)
(* ineligible.                                                              *)

Conflicted(r) ==
    /\ AtStage(r, "reconciler") /\ r.todo # <<>>
    /\ \E p \in posts : p.accountId = r.account /\ p.shortcode = Head(r.todo)
    /\ r \notin jobs'.runs

Failed(r) == AtStage(r, "adapter") /\ [r EXCEPT !.stage = "tracker", !.ok = FALSE] \in jobs'.runs

C16_CycleSurvivesFailure ==
    [][/\ \A r \in jobs.runs :
            (Failed(r) \/ Conflicted(r))
            => /\ jobs'.cycle.on = jobs.cycle.on
               /\ jobs'.cycle.todo = jobs.cycle.todo
       /\ (jobs.cycle.on /\ ~jobs'.cycle.on)
            => jobs.cycle.set = jobs.cycle.seen \cup jobs.cycle.skipped]_vars

\* The cycle is over: the provider failed on a1, a2 was fetched and its post
\* reconciled.
C16_Witness ==
    /\ ~jobs.cycle.on /\ jobs.cycle.seen = {"a1", "a2"}
    /\ attempts["a1"] = <<Attempt(FALSE, FALSE)>>
    /\ attempts["a2"] = <<Attempt(FALSE, TRUE)>>
    /\ \E p \in posts : p.accountId = "a2" /\ p.shortcode = "A1"

----------------------------------------------------------------------------
(* C17: composing a digest for the period [start, end) selects exactly the  *)
(* posts published at t with start <= t < end and attaches exactly those    *)
(* posts to the new digest.  As amended: it attaches exactly those of the   *)
(* selected posts that are not attached to another digest already.          *)

Published(period) == {p.id : p \in {q \in posts : period[1] <= q.publishedAt
                                                    /\ q.publishedAt < period[2]}}

Members(rows, digestId) == {dp.postId : dp \in {x \in rows : x.digestId = digestId}}

Recorded(draft) == draft \in jobs.drafts /\ draft \notin jobs'.drafts

\* The claim as stated.
C17_ComposeAttachesPeriod ==
    [][\A draft \in jobs.drafts :
          Recorded(draft)
          => \E d \in digests' \ digests :
                Members(digestPosts', d.id) = Published(draft.period)]_vars

\* The claim as amended.
C17_ComposeAttachesFree ==
    [][/\ \A draft \in jobs'.drafts \ jobs.drafts :
            draft.selected = Published(draft.period)
       /\ \A draft \in jobs.drafts :
            Recorded(draft)
            => \E d \in digests' \ digests :
                  /\ d.periodStart = draft.period[1] /\ d.periodEnd = draft.period[2]
                  /\ Members(digestPosts', d.id) =
                        {id \in Published(draft.period) :
                            ~\E dp \in digestPosts : dp.postId = id}
                  /\ \A x \in digestPosts : x \in digestPosts']_vars

\* A digest for [1, 2) holds the post published at 1 and not the one
\* published at 2; a digest for [1, 3) composed after it holds only the
\* other post.
C17_Witness ==
    \E d, e \in digests :
        /\ d.periodStart = 1 /\ d.periodEnd = 2
        /\ e.periodStart = 1 /\ e.periodEnd = 3
        /\ Members(digestPosts, d.id) = {"p1"}
        /\ Members(digestPosts, e.id) = {"p2"}

----------------------------------------------------------------------------
(* C18: a step of the email transport, failing or accepting, leaves the     *)
(* recorded digest rows and membership rows as they are: a failed send      *)
(* removes nothing and a send tried again adds no digest row.               *)

Mailed(mails) == {x.digest : x \in mails}

SendStep == jobs'.mail # jobs.mail /\ Mailed(jobs'.mail) = Mailed(jobs.mail)

C18_SendLeavesRecords ==
    [][/\ SendStep => digests' = digests /\ digestPosts' = digestPosts
       /\ Mailed(jobs'.mail) \subseteq Ids(digests')]_vars

\* The send of the one digest failed and was accepted when tried again: the
\* digest row and its membership are there, and no second digest row.
C18_Witness ==
    \E x \in jobs.mail :
        /\ x.state = "sent" /\ x.error
        /\ Ids(digests) = {x.digest}
        /\ Members(digestPosts, x.digest) = {"p1", "p2"}

----------------------------------------------------------------------------
(* C23: a PATCH /posts/:id that would give a post the shortcode another     *)
(* post of the same account holds is answered 409, as a duplicate           *)
(* POST /posts is, and leaves every post row as it was.                     *)

\* The PATCH of c would move its post onto the shortcode of another post of
\* the same account.
ShortcodeTaken(c) ==
    /\ "shortcode" \in slot[c].r.body.keys
    /\ \E p, q \in posts :
          /\ p.id = slot[c].r.id /\ q.id # p.id
          /\ q.accountId = p.accountId /\ q.shortcode = slot[c].r.body.shortcode

C23_PatchConflict ==
    [][\A c \in DOMAIN slot :
          (Runs(c, "PATCH /posts/:id") /\ ShortcodeTaken(c))
          => slot'[c].code = 409 /\ posts' = posts]_vars

----------------------------------------------------------------------------
(* C24: a PATCH to an account, a post, a digest or the settings whose       *)
(* validated body carries no updatable field is answered 400 and changes    *)
(* no stored row, whether the addressed row exists or not.                  *)

\* The request c receives in this step.
Received(c) == ~Pending(c) /\ slot'[c] # slot[c]

EmptyPatch(r) ==
    /\ r.route \in PatchRoutes
    /\ r.route \in ParamRoutes => UuidValid(r.id)
    /\ Validate(r).success /\ Validate(r).output.keys = {}

C24_EmptyPatchRejected ==
    [][\A c \in DOMAIN slot :
          (Received(c) /\ EmptyPatch(slot'[c].r))
          => /\ slot'[c].phase = "done" /\ slot'[c].code = 400
             /\ DbUnchanged]_vars

\* Answered 400: a PATCH naming only accountId to a stored post, and one
\* naming only id to a digest that is not stored.
C24_Witness ==
    \/ /\ slot["c1"].phase = "done" /\ slot["c1"].code = 400
       /\ slot["c1"].r = Request("PATCH /posts/:id", "p1", PostBody({"accountId"}, "a2", "", "", "", ""))
       /\ "p1" \in Ids(posts)
    \/ /\ slot["c1"].phase = "done" /\ slot["c1"].code = 400
       /\ slot["c1"].r = Request("PATCH /digests/:id", "d2", DigestBody({"id"}, "", "", ""))
       /\ "d2" \notin Ids(digests)

----------------------------------------------------------------------------
(* C25: PATCH /settings never creates the settings row: on an empty table   *)
(* it is answered 404 and the table stays empty; the row is only ever       *)
(* created by a GET /settings.                                              *)

C25_PatchNeverCreates ==
    [][/\ \A c \in DOMAIN slot :
            (Runs(c, "PATCH /settings") /\ settings = {})
            => slot'[c].code = 404 /\ settings' = {}
       /\ (settings = {} /\ settings' # {})
            => \E c \in DOMAIN slot : Runs(c, "GET /settings")]_vars

\* A PATCH /settings answered 404 on the empty table, before the GET that
\* created the row.
C25_Witness ==
    /\ slot["c1"].phase = "done" /\ slot["c1"].r.route = "PATCH /settings"
    /\ slot["c1"].code = 404
    /\ slot["c2"].phase = "done" /\ slot["c2"].r.route = "GET /settings"
    /\ slot["c2"].code = 200
    /\ "c2" \in slot["c1"].with
    /\ settings = {DefaultSettings}

----------------------------------------------------------------------------
(* C27: a PATCH /accounts/:id answered 200 changes, of that one account,    *)
(* only the fields among handle, url and status that the body carries: id,  *)
(* createdAt, lastCheckedAt and lastShortcode stay, a status the body does  *)
(* not carry stays, and every other account, post, media, digest and        *)
(* membership row stays.                                                    *)

\* Field by field: the body's value where the body carries the field.
Patched(old, new, body) ==
    /\ new.id = old.id /\ new.createdAt = old.createdAt
    /\ new.lastCheckedAt = old.lastCheckedAt /\ new.lastShortcode = old.lastShortcode
    /\ new.handle = IF "handle" \in body.keys THEN body.handle ELSE old.handle
    /\ new.url = IF "url" \in body.keys THEN body.url ELSE old.url
    /\ new.status = IF "status" \in body.keys THEN body.status ELSE old.status

C27_AccountPatchFrame ==
    [][\A c \in DOMAIN slot :
          (Runs(c, "PATCH /accounts/:id") /\ slot'[c].code = 200)
          => /\ \E old \in accounts : \E new \in accounts' :
                   /\ old.id = slot[c].r.id
                   /\ Patched(old, new, slot[c].r.body)
                   /\ accounts' \ {new} = accounts \ {old}
             /\ UNCHANGED <<posts, media, digests, digestPosts, settings>>]_vars

\* Handle and url of the checked account patched: its cursor and status are
\* as the fetch job left them and the other account is as it was.
C27_Witness ==
    /\ slot["c1"].phase = "done" /\ slot["c1"].code = 200
    /\ slot["c1"].r = Request("PATCH /accounts/:id", "a1",
                              AccountBody({"handle", "url"}, "tate", Url2, "", NULL))
    /\ [CheckedAccount EXCEPT !.handle = "tate", !.url = Url2] \in accounts
    /\ Account("a2", "nasa") \in accounts

----------------------------------------------------------------------------
(* C26: in every reachable state each post names a stored account, each     *)
(* media row a stored post and each membership a stored digest and a stored *)
(* post; a POST /posts naming no stored account, and a                      *)
(* POST /digests/:id/posts naming a digest or a post that is not stored,    *)
(* insert no row.                                                           *)

Referenced ==
    /\ \A p \in posts : p.accountId \in Ids(accounts)
    /\ \A m \in media : m.postId \in Ids(posts)
    /\ \A dp \in digestPosts : dp.digestId \in Ids(digests) /\ dp.postId \in Ids(posts)

Dangling(c) ==
    \/ /\ Runs(c, "POST /posts")
       /\ slot[c].r.body.accountId \notin Ids(accounts)
    \/ /\ Runs(c, "POST /digests/:id/posts")
       /\ \/ slot[c].r.id \notin Ids(digests)
          \/ \E i \in 1..Len(slot[c].r.body.postIds) :
                slot[c].r.body.postIds[i] \notin Ids(posts)

C26_ReferentialIntegrity ==
    /\ []Referenced
    /\ [][\A c \in DOMAIN slot :
             Dangling(c) => DbUnchanged /\ slot'[c].code \notin {200, 201}]_vars

\* A POST /posts naming an id that is no account's was answered with an
\* error while a membership and both posts were stored.
C26_Witness ==
    /\ slot["c1"].phase = "done"
    /\ slot["c1"].r = Request("POST /posts", NULL, Plain("d1", "A2"))
    /\ slot["c1"].code = 500
    /\ Cardinality(posts) = 2
    /\ digestPosts # {}

----------------------------------------------------------------------------
(* C21: GET /posts/:id/media is answered 404 exactly when no post has that  *)
(* id, and otherwise 200 with exactly the media rows whose postId is that   *)
(* post, an empty list when it has none: the response is the one the claim  *)
(* gives for the database as it was when the handler read it.               *)

Response(c) == [code |-> slot'[c].code, out |-> slot'[c].out]

C21_PostMedia ==
    [][\A c \in DOMAIN slot :
          Runs(c, "GET /posts/:id/media") => Response(c) \in slot'[c].seen]_vars

----------------------------------------------------------------------------
(* C22: GET /posts?page=p&limit=l, with the defaults p = 1 and l = 20, is   *)
(* answered 400 unless p >= 1 and 1 <= l <= 100, and otherwise with the     *)
(* posts ranked (p-1)*l+1 through p*l by descending publishedAt, at most l  *)
(* of them, meta.total the number of stored posts and meta.totalPages =     *)
(* ceil(total / l); on one state of the table the pages 1..totalPages hold  *)
(* every stored post exactly once and the page after them is empty.         *)

PageOf(query) == Number(IF "page" \in query.keys THEN query.page ELSE "1")

LimitOf(query) == Number(IF "limit" \in query.keys THEN query.limit ELSE "20")

InRange(query) ==
    LET p == PageOf(query)
        l == LimitOf(query)
    IN  /\ ~p.nan /\ p.n >= p.d
        /\ ~l.nan /\ l.n >= l.d /\ l.n <= 100 * l.d

\* The ranks k with (p-1)*l+1 <= k <= p*l.
Ranks(p, l, total) ==
    {k \in 1..total : /\ k * p.d * l.d >= (p.n - p.d) * l.n + p.d * l.d
                      /\ k * p.d * l.d <= p.n * l.n}

\* ceil(total / l)
Pages(total, l) ==
    CHOOSE m \in 0..total :
        /\ m * l.n >= total * l.d
        /\ \A k \in 0..total : k * l.n >= total * l.d => m <= k

Ranked(query) ==
    LET all == Sorted(posts)
        ks == Ranks(PageOf(query), LimitOf(query), Len(all))
    IN  [i \in 1..Cardinality(ks) |->
            all[CHOOSE k \in ks : Cardinality({j \in ks : j < k}) = i - 1]]

PageNow(page, limit) ==
    PostsGetAtOnce(Db, [keys |-> {"page", "limit"}, page |-> Num(page, 1),
                        limit |-> Num(limit, 1)]).out

EachOnce ==
    \A limit \in 1..3 :
        LET last == PageNow(1, limit).totalPages
        IN  /\ \A post \in posts :
                  Cardinality({x \in (1..last) \X (1..limit) :
                                  /\ x[2] <= Len(PageNow(x[1], limit).list)
                                  /\ PageNow(x[1], limit).list[x[2]] = post}) = 1
            /\ PageNow(last + 1, limit).list = <<>>

C22_Pagination ==
    /\ []EachOnce
    /\ [][/\ \A c \in DOMAIN slot :
                (Received(c) /\ slot'[c].r.route = "GET /posts" /\ ~InRange(slot'[c].r.body))
                => slot'[c].phase = "done" /\ slot'[c].code = 400
          /\ \A c \in DOMAIN slot :
                (Runs(c, "GET /posts") /\ slot[c].with = {})
                => LET query == slot[c].r.body
                       new == slot'[c]
                   IN  /\ InRange(query)
                       /\ new.code = 200
                       /\ new.out.list = Ranked(query)
                       /\ Len(new.out.list) * LimitOf(query).d <= LimitOf(query).n
                       /\ new.out.total = Cardinality(posts)
                       /\ new.out.totalPages = Pages(new.out.total, LimitOf(query))]_vars

=============================================================================
